---- MODULE Spec2Model ----
(***************************************************************************)
(* State-machine model of the invoice builder (components/InvoiceBuilder)  *)
(* and of the part of the App shell that mounts and unmounts it.           *)
(*                                                                         *)
(* Strings are sequences of character codes (naturals); code 0 is the      *)
(* whitespace character, so that String.prototype.trim can be computed.    *)
(* JS objects are records.  The handlers of the component never assign     *)
(* into an existing object (they build new objects with spread / map /     *)
(* filter), so objects are modelled as values.                             *)
(***************************************************************************)
EXTENDS Integers, Sequences, FiniteSets, TLC

\* ------------------------------------------------------------------------
\* Bounds of the model
\* ------------------------------------------------------------------------
\* number of distinct tokens Math.random().toString(36).slice(2, 10) yields
NumIds == 2
\* the archive is not extended beyond this many entries
MaxArchive == 2
\* number of distinct instants new Date() can return
MaxTime == 1
\* the burst counter saturates here
MaxBurst == 2
\* at most this many window timers are pending at once
MaxTimers == 2
\* at most this many print requests are outstanding at once
MaxPrints == 2
\* line items are not added beyond this many
MaxItems == 2

\* ------------------------------------------------------------------------
\* Strings
\* ------------------------------------------------------------------------
Space == 0
EmptyString == << >>

RECURSIVE TrimStart(_)
TrimStart(s) ==
  IF s = << >> THEN << >>
  ELSE IF Head(s) = Space THEN TrimStart(Tail(s)) ELSE s

RECURSIVE TrimEnd(_)
TrimEnd(s) ==
  IF s = << >> THEN << >>
  ELSE IF s[Len(s)] = Space THEN TrimEnd(SubSeq(s, 1, Len(s) - 1)) ELSE s

\* String.prototype.trim
Trim(s) == TrimEnd(TrimStart(s))

\* character codes of the literal parts of an invoice number ("ADS", "-")
CharA == 11
CharD == 12
CharS == 13
CharDash == 14
\* character codes used for typed text
CharX == 21
\* the word 'invoice' and the suffix '.json' of a download name, one code each
CharInvoice == 31
CharJson == 32

\* the tokens generateId can return
Ids == { <<c>> : c \in 1..NumIds }
\* the instants the wall clock can show
Times == 1..MaxTime
\* the calendar day of the session: every instant of Times lies in it
Today == 100
DayOf(t) == Today

\* ------------------------------------------------------------------------
\* Static reference data (module ../data)
\* ------------------------------------------------------------------------
DefaultClientId == <<CharX>>
DefaultClientProfile ==
  [ id |-> DefaultClientId, companyName |-> <<CharX>>, contactName |-> <<CharX>>,
    email |-> <<CharX>>, phone |-> <<CharX>>, addressLine1 |-> <<CharX>>,
    city |-> <<CharX>>, state |-> <<CharX>>, postalCode |-> <<CharX>>,
    country |-> <<CharX>> ]
DefaultService ==
  [ id |-> <<CharS>>, description |-> <<CharX>>, unitRate |-> 1000 ]
SecondService ==
  [ id |-> <<CharD>>, description |-> <<CharX, CharX>>, unitRate |-> 500 ]
ServiceCatalog == << DefaultService, SecondService >>
\* an id no service of the catalog has
UnknownServiceId == <<CharA>>
TermsText == <<CharX, Space, CharX>>

\* toClientDetails: addressLine2 and gstin are optional in a profile (?? '')
toClientDetails(profile) ==
  [ companyName |-> profile.companyName,
    contactName |-> profile.contactName,
    email |-> profile.email,
    phone |-> profile.phone,
    addressLine1 |-> profile.addressLine1,
    addressLine2 |-> IF "addressLine2" \in DOMAIN profile THEN profile.addressLine2 ELSE EmptyString,
    city |-> profile.city,
    state |-> profile.state,
    postalCode |-> profile.postalCode,
    country |-> profile.country,
    gstin |-> IF "gstin" \in DOMAIN profile THEN profile.gstin ELSE EmptyString ]

\* formatDateForInput / addDays: a date string is the one-character string
\* holding the day number
formatDateForInput(day) == <<day>>
addDays(day, days) == day + days

\* the template ADS-{year}-{mm}{dd}-{token}
InvoiceNumberOf(day, token) ==
  <<CharA, CharD, CharS, CharDash, day, CharDash>> \o token

createLineItem(id, service) ==
  [ id |-> id,
    serviceId |-> service.id,
    description |-> service.description,
    quantity |-> 1,
    unitPrice |-> service.unitRate,
    discountRate |-> 0,
    notes |-> EmptyString ]

\* createInitialState: `itemId` and `token` are the two generateId results,
\* `day` the day of new Date()
createInitialState(itemId, token, day) ==
  [ clientSelectionId |-> DefaultClientProfile.id,
    client |-> toClientDetails(DefaultClientProfile),
    currency |-> "INR",
    taxRate |-> 18,
    lineItems |-> << createLineItem(itemId, DefaultService) >>,
    meta |-> [ invoiceNumber |-> InvoiceNumberOf(day, token),
               issueDate |-> formatDateForInput(day),
               dueDate |-> formatDateForInput(addDays(day, 15)),
               projectName |-> <<CharX>>,
               purchaseOrder |-> EmptyString,
               reference |-> EmptyString ],
    terms |-> TermsText,
    additionalNote |-> EmptyString ]

\* ------------------------------------------------------------------------
\* JSON
\* ------------------------------------------------------------------------
\* JSON.stringify of an object: its members in key order, as key/value pairs
JsonObject(r, keys) == [ i \in 1..Len(keys) |-> <<keys[i], r[keys[i]]>> ]
\* JSON.parse of an object text: the object with those members
ParseObject(j) ==
  [ k \in { j[i][1] : i \in DOMAIN j } |->
      j[CHOOSE i \in DOMAIN j : j[i][1] = k /\ \A m \in DOMAIN j : j[m][1] = k => m <= i][2] ]

ClientKeys == <<"companyName", "contactName", "email", "phone", "addressLine1",
                "addressLine2", "city", "state", "postalCode", "country", "gstin">>
MetaKeys == <<"invoiceNumber", "issueDate", "dueDate", "projectName",
              "purchaseOrder", "reference">>
LineItemKeys == <<"id", "serviceId", "description", "quantity", "unitPrice",
                  "discountRate", "notes">>
FormKeys == <<"clientSelectionId", "client", "currency", "taxRate", "lineItems",
              "meta", "terms", "additionalNote">>

StringifyFormState(s) ==
  JsonObject([ s EXCEPT
                 !.client = JsonObject(s.client, ClientKeys),
                 !.lineItems = [ i \in DOMAIN s.lineItems |->
                                   JsonObject(s.lineItems[i], LineItemKeys) ],
                 !.meta = JsonObject(s.meta, MetaKeys) ],
             FormKeys)

ParseFormState(j) ==
  LET o == ParseObject(j)
  IN  [ o EXCEPT
          !.client = ParseObject(o.client),
          !.lineItems = [ i \in DOMAIN o.lineItems |-> ParseObject(o.lineItems[i]) ],
          !.meta = ParseObject(o.meta) ]

\* cloneFormState: JSON.parse(JSON.stringify(state))
cloneFormState(state) == ParseFormState(StringifyFormState(state))

\* JS null; also what localStorage.getItem returns for an absent key
Null == [ null |-> TRUE ]
\* a localStorage item holding the JSON text j
JsonText(j) == [ json |-> j ]
\* a localStorage item holding a text that is no JSON
MalformedText == [ malformed |-> TRUE ]
\* the object {} and the localStorage item holding its text
EmptyObject == [ emptyObject |-> TRUE ]
EmptyObjectText == [ text |-> "{}" ]
\* new Date().toISOString() at instant t
toISOString(t) == <<t>>

StoredInvoiceKeys == <<"id", "invoiceNumber", "savedAt", "formState">>
DraftKeys == <<"savedAt", "formState">>

\* JSON.stringify(savedInvoices)
StringifyArchive(list) ==
  [ i \in DOMAIN list |->
      JsonObject([ list[i] EXCEPT !.formState = StringifyFormState(list[i].formState) ],
                 StoredInvoiceKeys) ]
ParseArchive(j) ==
  [ i \in DOMAIN j |->
      LET o == ParseObject(j[i])
      IN  [ o EXCEPT !.formState = ParseFormState(o.formState) ] ]

\* JSON.stringify(payload) of a DraftInvoicePayload
StringifyDraft(payload) ==
  JsonObject([ payload EXCEPT !.formState = StringifyFormState(payload.formState) ], DraftKeys)
ParseDraft(j) ==
  LET o == ParseObject(j)
  IN  [ o EXCEPT !.formState = ParseFormState(o.formState) ]

\* safeJsonParse<StoredInvoice[]>(item) / safeJsonParse<DraftInvoicePayload>(item):
\* null for an absent item and when JSON.parse throws, the parsed value
\* otherwise, whatever its shape
safeJsonParseArchive(item) ==
  IF item = Null \/ item = MalformedText THEN Null
  ELSE IF item = EmptyObjectText THEN EmptyObject
  ELSE ParseArchive(item.json)
safeJsonParseDraft(item) ==
  IF item = Null \/ item = MalformedText THEN Null
  ELSE IF item = EmptyObjectText THEN EmptyObject
  ELSE ParseDraft(item.json)

\* Array.isArray(safeJsonParse(item)), decided on the item: the text of an
\* array is the only one that parses to an array
ParsesToArray(item) == item \notin { Null, MalformedText, EmptyObjectText }

\* the useState initializer of savedInvoices: Array.isArray(stored) ? stored : []
InitialSavedInvoices(item) ==
  IF ParsesToArray(item) THEN safeJsonParseArchive(item) ELSE << >>

\* a plausible slip: the stored draft is not read at construction
InitialDraftPayloadIgnoresStorage(item) == Null

\* the useState initializer of draftPayload: stored ?? null
InitialDraftPayload(item) == safeJsonParseDraft(item)

\* ------------------------------------------------------------------------
\* Validator
\* ------------------------------------------------------------------------
\* new Date(text).getTime(): the day number of a date string, -1 for NaN
IsDayChar(c) == c >= Today
DateTime(text) == IF Len(text) = 1 /\ IsDayChar(text[1]) THEN text[1] ELSE -1

IssueInvoiceNumber == "Invoice number is required."
IssueIssueDate == "Issue date is required."
IssueDueDate == "Due date is required."
IssueDateOrder == "Due date must be on or after issue date."
IssueCompany == "Bill to company name is required."
IssueAddress == "Bill to address line 1 is required."
IssueCity == "Bill to city is required."
IssueState == "Bill to state is required."
IssuePostal == "Bill to postal code is required."
IssueCountry == "Bill to country is required."
IssueNoItems == "At least one line item is required."
IssueItems == "Line items must include a description, quantity > 0, non-negative unit price, and non-negative discount."

\* issues.push(text) when cond
PushIf(cond, text) == IF cond THEN <<text>> ELSE << >>

\* a plausible slip: the validator returns at the first issue
validateInvoiceFirstIssueOnly(state) ==
  LET all ==
        PushIf(Trim(state.meta.invoiceNumber) = EmptyString, IssueInvoiceNumber)
        \o PushIf(Trim(state.meta.issueDate) = EmptyString, IssueIssueDate)
        \o PushIf(Trim(state.meta.dueDate) = EmptyString, IssueDueDate)
        \o PushIf(Trim(state.client.companyName) = EmptyString, IssueCompany)
        \o PushIf(Len(state.lineItems) = 0, IssueNoItems)
  IN  IF all = << >> THEN << >> ELSE <<Head(all)>>

\* a plausible slip: one line-item issue per invalid item, and a date-order
\* issue that does not look at whether the dates parse
validateInvoicePerItem(state) ==
  PushIf(Trim(state.meta.invoiceNumber) = EmptyString, IssueInvoiceNumber)
  \o PushIf(Trim(state.meta.issueDate) = EmptyString, IssueIssueDate)
  \o PushIf(Trim(state.meta.dueDate) = EmptyString, IssueDueDate)
  \o PushIf(DateTime(state.meta.dueDate) < DateTime(state.meta.issueDate), IssueDateOrder)
  \o PushIf(Trim(state.client.companyName) = EmptyString, IssueCompany)
  \o PushIf(Trim(state.client.addressLine1) = EmptyString, IssueAddress)
  \o PushIf(Trim(state.client.city) = EmptyString, IssueCity)
  \o PushIf(Trim(state.client.state) = EmptyString, IssueState)
  \o PushIf(Trim(state.client.postalCode) = EmptyString, IssuePostal)
  \o PushIf(Trim(state.client.country) = EmptyString, IssueCountry)
  \o PushIf(Len(state.lineItems) = 0, IssueNoItems)
  \o [ i \in DOMAIN state.lineItems |-> IssueItems ]

validateInvoice(state) ==
  PushIf(Trim(state.meta.invoiceNumber) = EmptyString, IssueInvoiceNumber)
  \o PushIf(Trim(state.meta.issueDate) = EmptyString, IssueIssueDate)
  \o PushIf(Trim(state.meta.dueDate) = EmptyString, IssueDueDate)
  \o PushIf(/\ state.meta.issueDate # EmptyString
            /\ state.meta.dueDate # EmptyString
            /\ DateTime(state.meta.issueDate) # -1
            /\ DateTime(state.meta.dueDate) # -1
            /\ DateTime(state.meta.dueDate) < DateTime(state.meta.issueDate),
            IssueDateOrder)
  \o PushIf(Trim(state.client.companyName) = EmptyString, IssueCompany)
  \o PushIf(Trim(state.client.addressLine1) = EmptyString, IssueAddress)
  \o PushIf(Trim(state.client.city) = EmptyString, IssueCity)
  \o PushIf(Trim(state.client.state) = EmptyString, IssueState)
  \o PushIf(Trim(state.client.postalCode) = EmptyString, IssuePostal)
  \o PushIf(Trim(state.client.country) = EmptyString, IssueCountry)
  \o PushIf(Len(state.lineItems) = 0, IssueNoItems)
  \o PushIf(\E i \in DOMAIN state.lineItems :
              \/ Trim(state.lineItems[i].description) = EmptyString
              \/ state.lineItems[i].quantity <= 0
              \/ state.lineItems[i].unitPrice < 0
              \/ state.lineItems[i].discountRate < 0,
            IssueItems)

\* ------------------------------------------------------------------------
\* State
\* ------------------------------------------------------------------------
VARIABLES
  mounted,                 \* App: activeView = 'builder', the builder is rendered
  formState,               \* useState: the working state (Null while unmounted)
  layoutMode,              \* useState: 'split' | 'form' | 'preview'
  savedInvoices,           \* useState: the archive
  selectedSavedInvoiceId,  \* useState: the selection ('' = none)
  draftPayload,            \* useState: the in-memory draft reference
  hasUserSelectedLayout,   \* useRef
  archiveStorage,          \* localStorage['invoice-archive.v1']
  draftStorage,            \* localStorage['invoice-draft.v1']
  quotaExceeded,           \* localStorage.setItem throws (the quota is used up)
  timers,                  \* pending window timers of the autosave effect
  effectHandle,            \* the handle the current effect cleanup closes over
  lastOp,                  \* history: the handler that ran last and its outcome
  burstLen,                \* history: working-state mutations since mount / last draft write
  writesSinceMutation,     \* history: draft writes since the last working-state mutation
  firedSinceLoad,          \* history: an autosave timer has fired since mount
  prompt,                  \* history: the window.confirm dialog of the handler that ran last
  printTimers,             \* pending window.setTimeout(() => window.print(), 50) timers
  afterprintListeners,     \* the `restore` closures registered for 'afterprint'
  printing                 \* window.print() was invoked, 'afterprint' is still to come

componentVars == <<formState, layoutMode, savedInvoices, selectedSavedInvoiceId,
                   draftPayload, hasUserSelectedLayout>>
storageVars == <<archiveStorage, draftStorage, quotaExceeded>>
timerVars == <<timers, effectHandle>>
historyVars == <<lastOp, burstLen, writesSinceMutation, firedSinceLoad>>
printVars == <<printTimers, afterprintListeners, printing>>
vars == <<mounted, componentVars, storageVars, timerVars, historyVars, prompt, printVars>>

\* ------------------------------------------------------------------------
\* The autosave effect (useEffect on [formState])
\* ------------------------------------------------------------------------
Handles(ts) == { t.handle : t \in ts }
\* a plausible slip: the timer is not cancelled
clearTimeoutKeepsTimer(ts, handle) == ts

\* window.clearTimeout(handle)
clearTimeout(ts, handle) == { t \in ts : t.handle # handle }
\* the handle window.setTimeout returns: one no pending timer has
NewHandle(ts) == CHOOSE h \in 1..MaxTimers : h \notin Handles(ts) /\ \A g \in 1..(h - 1) : g \in Handles(ts)

\* the cleanup of the previous run of the effect
AutosaveCleanup(ts, handle) == clearTimeout(ts, handle)

\* one run of the effect body for the render whose formState is fs
AutosaveSchedule(ts, fs) == ts \cup { [ handle |-> NewHandle(ts), formState |-> fs ] }

\* a render with a new formState object: cleanup of the previous effect run,
\* then the effect body
SetFormState(next) ==
  LET cleared == AutosaveCleanup(timers, effectHandle)
  IN  /\ Cardinality(cleared) < MaxTimers
      /\ formState' = next
      /\ timers' = AutosaveSchedule(cleared, next)
      /\ effectHandle' = NewHandle(cleared)
      /\ burstLen' = IF writesSinceMutation > 0 THEN 1
                      ELSE IF burstLen < MaxBurst THEN burstLen + 1 ELSE MaxBurst
      /\ writesSinceMutation' = 0

\* a plausible slip: the effect depends on savedInvoices.length, and an array
\* of the same length is not written
SetSavedInvoicesOnLengthChange(next) ==
  /\ ~quotaExceeded
  /\ savedInvoices' = next
  /\ archiveStorage' = IF Len(next) = Len(savedInvoices) /\ archiveStorage # Null
                          THEN archiveStorage
                        ELSE JsonText(StringifyArchive(next))

\* the archive persistence effect (useEffect on [savedInvoices])
SetSavedInvoices(next) ==
  /\ ~quotaExceeded
  /\ savedInvoices' = next
  /\ archiveStorage' = JsonText(StringifyArchive(next))

Op(name, arg) == [ op |-> name, arg |-> arg ]
\* the record of a construction of the component: the two localStorage items
\* it has read
StartOp(archiveItem, draftItem) ==
  [ op |-> "mount", arg |-> EmptyString, archive |-> archiveItem, draft |-> draftItem ]

\* window.confirm: the lines the dialog shows and the user's answer
NoPrompt == Null
Prompt(lines, answer) == [ lines |-> lines, answer |-> answer ]
\* if (issues.length) { const proceed = window.confirm(...issues.join('\n')...) }
ConfirmIssues(issues, answer) == IF issues = << >> THEN NoPrompt ELSE Prompt(issues, answer)
\* window.confirm('Delete this saved invoice copy?')
DeleteQuestion == <<"Delete this saved invoice copy?">>

\* history: the working state was mutated and no draft write has followed
Unsaved == burstLen > 0 /\ writesSinceMutation = 0

\* ------------------------------------------------------------------------
\* Initial state: the App shows the overview, the builder is not rendered,
\* localStorage holds neither key
\* ------------------------------------------------------------------------
Init ==
  /\ mounted = FALSE
  /\ formState = Null
  /\ layoutMode = "form"
  /\ savedInvoices = << >>
  /\ selectedSavedInvoiceId = EmptyString
  /\ draftPayload = Null
  /\ hasUserSelectedLayout = FALSE
  /\ archiveStorage = Null
  /\ draftStorage = Null
  /\ quotaExceeded = FALSE
  /\ timers = {}
  /\ effectHandle = 0
  /\ lastOp = Op("init", EmptyString)
  /\ burstLen = 0
  /\ writesSinceMutation = 0
  /\ firedSinceLoad = FALSE
  /\ prompt = NoPrompt
  /\ printTimers = 0
  /\ afterprintListeners = << >>
  /\ printing = FALSE

\* ------------------------------------------------------------------------
\* App: renderContent renders <InvoiceBuilder /> only for the 'builder' view
\* ------------------------------------------------------------------------
\* setActiveView('builder'): the component is constructed, its three effects run
\* a plausible slip: the archive item is parsed without the try/catch, and a
\* text that is no JSON makes the construction throw
MountBuilderUnsafeParse ==
  IF archiveStorage = MalformedText
  THEN /\ ~mounted
       /\ lastOp' = StartOp(archiveStorage, draftStorage)
       /\ prompt' = NoPrompt
       /\ UNCHANGED <<mounted, componentVars, storageVars, timerVars, burstLen,
                      writesSinceMutation, firedSinceLoad, printVars>>
  ELSE
       /\ ~mounted
       /\ Cardinality(timers) < MaxTimers
       /\ \E itemId \in Ids, token \in Ids, now \in Times, matches \in BOOLEAN :
            LET initial == createInitialState(itemId, token, DayOf(now))
                stored == InitialSavedInvoices(archiveStorage)
            IN  /\ mounted' = TRUE
                /\ formState' = initial
                /\ layoutMode' = IF matches THEN "split" ELSE "form"
                /\ SetSavedInvoices(stored)
                /\ selectedSavedInvoiceId' = EmptyString
                /\ draftPayload' = InitialDraftPayload(draftStorage)
                /\ hasUserSelectedLayout' = FALSE
                /\ timers' = AutosaveSchedule(timers, initial)
                /\ effectHandle' = NewHandle(timers)
       /\ lastOp' = StartOp(archiveStorage, draftStorage)
       /\ burstLen' = 0
       /\ writesSinceMutation' = 0
       /\ firedSinceLoad' = FALSE
       /\ prompt' = NoPrompt
       /\ UNCHANGED <<quotaExceeded, draftStorage, printVars>>

\* a plausible slip: the first autosave is scheduled by the first mutation,
\* not by the construction
MountBuilderSchedulesNothing ==
  /\ ~mounted
  /\ Cardinality(timers) < MaxTimers
  /\ \E itemId \in Ids, token \in Ids, now \in Times, matches \in BOOLEAN :
       LET initial == createInitialState(itemId, token, DayOf(now))
           stored == InitialSavedInvoices(archiveStorage)
       IN  /\ mounted' = TRUE
           /\ formState' = initial
           /\ layoutMode' = IF matches THEN "split" ELSE "form"
           /\ SetSavedInvoices(stored)
           /\ selectedSavedInvoiceId' = EmptyString
           /\ draftPayload' = InitialDraftPayload(draftStorage)
           /\ hasUserSelectedLayout' = FALSE
           /\ timers' = timers
           /\ effectHandle' = 0
  /\ lastOp' = StartOp(archiveStorage, draftStorage)
  /\ burstLen' = 0
  /\ writesSinceMutation' = 0
  /\ firedSinceLoad' = FALSE
  /\ prompt' = NoPrompt
  /\ UNCHANGED <<quotaExceeded, draftStorage, printVars>>

MountBuilder ==
  /\ ~mounted
  /\ Cardinality(timers) < MaxTimers
  /\ \E itemId \in Ids, token \in Ids, now \in Times, matches \in BOOLEAN :
       LET initial == createInitialState(itemId, token, DayOf(now))
           stored == InitialSavedInvoices(archiveStorage)
       IN  /\ mounted' = TRUE
           /\ formState' = initial
           /\ layoutMode' = IF matches THEN "split" ELSE "form"
           /\ SetSavedInvoices(stored)
           /\ selectedSavedInvoiceId' = EmptyString
           /\ draftPayload' = InitialDraftPayload(draftStorage)
           /\ hasUserSelectedLayout' = FALSE
           /\ timers' = AutosaveSchedule(timers, initial)
           /\ effectHandle' = NewHandle(timers)
  /\ lastOp' = StartOp(archiveStorage, draftStorage)
  /\ burstLen' = 0
  /\ writesSinceMutation' = 0
  /\ firedSinceLoad' = FALSE
  /\ prompt' = NoPrompt
  /\ UNCHANGED <<quotaExceeded, draftStorage, printVars>>

\* setActiveView of another view: the component is destroyed, the effect
\* cleanups run
UnmountBuilder ==
  /\ mounted
  /\ mounted' = FALSE
  /\ formState' = Null
  /\ layoutMode' = "form"
  /\ savedInvoices' = << >>
  /\ selectedSavedInvoiceId' = EmptyString
  /\ draftPayload' = Null
  /\ hasUserSelectedLayout' = FALSE
  /\ timers' = AutosaveCleanup(timers, effectHandle)
  /\ effectHandle' = 0
  /\ lastOp' = Op("unmount", EmptyString)
  /\ burstLen' = IF Unsaved THEN 1 ELSE 0
  /\ writesSinceMutation' = 0
  /\ firedSinceLoad' = FALSE
  /\ prompt' = NoPrompt
  \* the listeners stay registered on window, but they act on the destroyed
  \* instance only: for the state of the model they are gone
  /\ afterprintListeners' = << >>
  /\ UNCHANGED <<storageVars, printTimers, printing>>

\* ------------------------------------------------------------------------
\* The autosave timer callback
\* ------------------------------------------------------------------------
AutosaveFire ==
  \E t \in timers, now \in Times :
    LET payload == [ savedAt |-> toISOString(now),
                     formState |-> cloneFormState(t.formState) ]
    IN  /\ ~quotaExceeded
        /\ timers' = timers \ {t}
        /\ draftStorage' = JsonText(StringifyDraft(payload))
        /\ draftPayload' = IF mounted THEN payload ELSE draftPayload
        /\ lastOp' = Op("autosave", EmptyString)
        /\ writesSinceMutation' = IF writesSinceMutation < 2 THEN writesSinceMutation + 1 ELSE 2
        /\ firedSinceLoad' = TRUE
        /\ prompt' = NoPrompt
        /\ UNCHANGED <<quotaExceeded, mounted, printVars, formState, layoutMode, savedInvoices, selectedSavedInvoiceId,
                       hasUserSelectedLayout, archiveStorage, effectHandle, burstLen>>

\* the timer callback when localStorage.setItem throws: the callback is left
\* before setDraftPayload
AutosaveWriteThrows ==
  \E t \in timers :
    /\ quotaExceeded
    /\ timers' = timers \ {t}
    /\ lastOp' = Op("autosaveThrew", EmptyString)
    /\ prompt' = NoPrompt
    /\ UNCHANGED <<mounted, printVars, componentVars, storageVars, effectHandle, burstLen,
                   writesSinceMutation, firedSinceLoad>>

\* ------------------------------------------------------------------------
\* The archive persistence effect when localStorage.setItem throws
\* ------------------------------------------------------------------------
\* the quota of localStorage is used up, or freed again
StorageQuota(exceeded) ==
  /\ quotaExceeded' = exceeded
  /\ lastOp' = Op("quota", EmptyString)
  /\ prompt' = NoPrompt
  /\ UNCHANGED <<mounted, printVars, componentVars, archiveStorage, draftStorage, timerVars,
                 burstLen, writesSinceMutation, firedSinceLoad>>

\* the archive operations that set a new savedInvoices array; update does so
\* only with a selection
WritingOps ==
  {"save", "duplicate", "delete"}
    \cup (IF selectedSavedInvoiceId # EmptyString THEN {"update"} ELSE {})

\* save, update, duplicate or delete takes effect and the effect that
\* persists the new array throws: an error thrown by an effect is not caught
\* by the component, and React removes the component tree
ArchivePersistThrows ==
  /\ mounted
  /\ quotaExceeded
  /\ \E op \in WritingOps :
       /\ lastOp' = Op("crash", op)
       /\ prompt' = IF op \in {"save", "update"}
                      THEN ConfirmIssues(validateInvoice(formState), TRUE)
                    ELSE IF op = "delete" THEN Prompt(DeleteQuestion, TRUE)
                    ELSE NoPrompt
  /\ mounted' = FALSE
  /\ formState' = Null
  /\ layoutMode' = "form"
  /\ savedInvoices' = << >>
  /\ selectedSavedInvoiceId' = EmptyString
  /\ draftPayload' = Null
  /\ hasUserSelectedLayout' = FALSE
  /\ timers' = AutosaveCleanup(timers, effectHandle)
  /\ effectHandle' = 0
  /\ burstLen' = IF Unsaved THEN 1 ELSE 0
  /\ writesSinceMutation' = 0
  /\ firedSinceLoad' = FALSE
  /\ afterprintListeners' = << >>
  /\ UNCHANGED <<storageVars, printTimers, printing>>

\* the construction when the effect throws on its first run: no component
MountThrows ==
  /\ ~mounted
  /\ quotaExceeded
  /\ lastOp' = Op("crash", "mount")
  /\ prompt' = NoPrompt
  /\ UNCHANGED <<mounted, printVars, componentVars, storageVars, timerVars, burstLen,
                 writesSinceMutation, firedSinceLoad>>

\* ------------------------------------------------------------------------
\* Working-state handlers
\* ------------------------------------------------------------------------
\* the values typed into a meta field
MetaInputs == { <<"invoiceNumber", EmptyString>> }

\* a plausible slip: the selected archive entry shares its state object with
\* the working state and the field is assigned in place
handleMetaChangeInPlace(name, value) ==
  /\ mounted
  /\ SetFormState([ formState EXCEPT !.meta[name] = value ])
  /\ savedInvoices' =
       [ i \in DOMAIN savedInvoices |->
           IF savedInvoices[i].id = selectedSavedInvoiceId
             THEN [ savedInvoices[i] EXCEPT !.formState.meta[name] = value ]
             ELSE savedInvoices[i] ]
  /\ lastOp' = Op("metaChange", EmptyString)
  /\ prompt' = NoPrompt
  /\ UNCHANGED <<mounted, printVars, layoutMode, selectedSavedInvoiceId, draftPayload,
                 hasUserSelectedLayout, storageVars, firedSinceLoad>>

handleMetaChange(name, value) ==
  /\ mounted
  /\ SetFormState([ formState EXCEPT !.meta[name] = value ])
  /\ lastOp' = Op("metaChange", EmptyString)
  /\ prompt' = NoPrompt
  /\ UNCHANGED <<mounted, printVars, layoutMode, savedInvoices, selectedSavedInvoiceId, draftPayload,
                 hasUserSelectedLayout, storageVars, firedSinceLoad>>

\* a plausible slip: regenerating also starts a fresh invoice, as
\* handleNewInvoice does, and drops the selection
handleRegenerateInvoiceNumberDeselects ==
  /\ mounted
  /\ \E token \in Ids, now \in Times :
       SetFormState([ formState EXCEPT !.meta.invoiceNumber = InvoiceNumberOf(DayOf(now), token) ])
  /\ selectedSavedInvoiceId' = EmptyString
  /\ lastOp' = Op("regenerate", EmptyString)
  /\ prompt' = NoPrompt
  /\ UNCHANGED <<mounted, printVars, layoutMode, savedInvoices, draftPayload,
                 hasUserSelectedLayout, storageVars, firedSinceLoad>>

handleRegenerateInvoiceNumber ==
  /\ mounted
  /\ \E token \in Ids, now \in Times :
       SetFormState([ formState EXCEPT !.meta.invoiceNumber = InvoiceNumberOf(DayOf(now), token) ])
  /\ lastOp' = Op("regenerate", EmptyString)
  /\ prompt' = NoPrompt
  /\ UNCHANGED <<mounted, printVars, layoutMode, savedInvoices, selectedSavedInvoiceId, draftPayload,
                 hasUserSelectedLayout, storageVars, firedSinceLoad>>

\* a plausible slip: the selection is left as it is
handleNewInvoiceKeepsSelection ==
  /\ mounted
  /\ \E itemId \in Ids, token \in Ids, now \in Times :
       SetFormState(createInitialState(itemId, token, DayOf(now)))
  /\ lastOp' = Op("new", EmptyString)
  /\ prompt' = NoPrompt
  /\ UNCHANGED <<mounted, printVars, layoutMode, savedInvoices, selectedSavedInvoiceId,
                 draftPayload, hasUserSelectedLayout, storageVars, firedSinceLoad>>

handleNewInvoice ==
  /\ mounted
  /\ \E itemId \in Ids, token \in Ids, now \in Times :
       SetFormState(createInitialState(itemId, token, DayOf(now)))
  /\ selectedSavedInvoiceId' = EmptyString
  /\ lastOp' = Op("new", EmptyString)
  /\ prompt' = NoPrompt
  /\ UNCHANGED <<mounted, printVars, layoutMode, savedInvoices, draftPayload,
                 hasUserSelectedLayout, storageVars, firedSinceLoad>>

\* ------------------------------------------------------------------------
\* Numbers typed into the form
\* ------------------------------------------------------------------------
\* event.target.value of a number input: a numeral, the empty text, or a
\* text that is no numeral
Numeral(n) == [ kind |-> "numeral", value |-> n ]
EmptyText == [ kind |-> "empty", value |-> 0 ]
OtherText == [ kind |-> "other", value |-> 0 ]

\* Number(text): the empty text converts to 0, a text that is no numeral to
\* NaN
Number(text) == [ nan |-> text.kind = "other", value |-> text.value ]
isNaN(n) == n.nan
\* n || 0: NaN and 0 are falsy
OrZero(n) == IF n.nan \/ n.value = 0 THEN 0 ELSE n.value
Max(a, b) == IF a >= b THEN a ELSE b

\* the record of an entry into a number input: the field, the row and the
\* text typed
NumberOp(field, id, text) == [ op |-> field, arg |-> id, text |-> text ]

handleTaxRateChange(text) ==
  /\ mounted
  /\ LET nextValue == Number(text)
     IN  SetFormState([ formState EXCEPT
           !.taxRate = IF isNaN(nextValue) THEN formState.taxRate
                       ELSE Max(nextValue.value, 0) ])
  /\ lastOp' = NumberOp("taxRate", EmptyString, text)
  /\ prompt' = NoPrompt
  /\ UNCHANGED <<mounted, printVars, layoutMode, savedInvoices, selectedSavedInvoiceId, draftPayload,
                 hasUserSelectedLayout, storageVars, firedSinceLoad>>

\* the state update of handleLineItemFieldChange: every item carrying the id
\* gets the field replaced
LineItemsWithField(items, id, field, value) ==
  [ i \in DOMAIN items |->
      IF items[i].id = id THEN [ items[i] EXCEPT ![field] = value ] ELSE items[i] ]

handleLineItemFieldChange(id, field, value) ==
  /\ mounted
  /\ SetFormState([ formState EXCEPT
       !.lineItems = LineItemsWithField(formState.lineItems, id, field, value) ])
  /\ prompt' = NoPrompt
  /\ UNCHANGED <<mounted, printVars, layoutMode, savedInvoices, selectedSavedInvoiceId, draftPayload,
                 hasUserSelectedLayout, storageVars, firedSinceLoad>>

\* onChange of the unit price, quantity and discount inputs of a rendered row
LineItemNumberInput(field, text) ==
  /\ mounted
  /\ \E i \in DOMAIN formState.lineItems :
       LET id == formState.lineItems[i].id
       IN  /\ handleLineItemFieldChange(id, field, OrZero(Number(text)))
           /\ lastOp' = NumberOp(field, id, text)

\* serviceLookup[serviceId]: the service of that id, Null (undefined) if none
serviceLookup(serviceId) ==
  IF \E i \in DOMAIN ServiceCatalog : ServiceCatalog[i].id = serviceId
    THEN ServiceCatalog[CHOOSE i \in DOMAIN ServiceCatalog : ServiceCatalog[i].id = serviceId]
    ELSE Null

\* the record of a change of service: the row and the id chosen
ServiceOp(id, serviceId) == [ op |-> "service", arg |-> id, serviceId |-> serviceId ]

\* a plausible slip: without a service the description and the unit price
\* are reset as createLineItem() sets them
handleServiceChangeResets(id, serviceId) ==
  /\ mounted
  /\ LET service == serviceLookup(serviceId)
     IN  SetFormState([ formState EXCEPT
           !.lineItems =
             [ i \in DOMAIN formState.lineItems |->
                 LET item == formState.lineItems[i]
                 IN  IF item.id = id
                       THEN [ item EXCEPT
                                !.serviceId = serviceId,
                                !.description = IF service # Null THEN service.description
                                                ELSE EmptyString,
                                !.unitPrice = IF service # Null THEN service.unitRate
                                              ELSE 0 ]
                       ELSE item ] ])
  /\ lastOp' = ServiceOp(id, serviceId)
  /\ prompt' = NoPrompt
  /\ UNCHANGED <<mounted, printVars, layoutMode, savedInvoices, selectedSavedInvoiceId, draftPayload,
                 hasUserSelectedLayout, storageVars, firedSinceLoad>>

handleServiceChange(id, serviceId) ==
  /\ mounted
  /\ LET service == serviceLookup(serviceId)
     IN  SetFormState([ formState EXCEPT
           !.lineItems =
             [ i \in DOMAIN formState.lineItems |->
                 LET item == formState.lineItems[i]
                 IN  IF item.id = id
                       THEN [ item EXCEPT
                                !.serviceId = serviceId,
                                !.description = IF service # Null THEN service.description
                                                ELSE item.description,
                                !.unitPrice = IF service # Null THEN service.unitRate
                                              ELSE item.unitPrice ]
                       ELSE item ] ])
  /\ lastOp' = ServiceOp(id, serviceId)
  /\ prompt' = NoPrompt
  /\ UNCHANGED <<mounted, printVars, layoutMode, savedInvoices, selectedSavedInvoiceId, draftPayload,
                 hasUserSelectedLayout, storageVars, firedSinceLoad>>

\* onChange of the service select of a rendered row
ServiceSelectChange(serviceId) ==
  /\ mounted
  /\ \E i \in DOMAIN formState.lineItems :
       handleServiceChange(formState.lineItems[i].id, serviceId)

\* the ids the service select can report: 'Select service', the catalog, and
\* an id the catalog does not hold
ServiceOptions ==
  { EmptyString, UnknownServiceId } \cup { ServiceCatalog[i].id : i \in DOMAIN ServiceCatalog }

\* createLineItem() without a service
NoService == [ id |-> EmptyString, description |-> EmptyString, unitRate |-> 0 ]

handleAddLineItem ==
  /\ mounted
  /\ Len(formState.lineItems) < MaxItems
  /\ \E id \in Ids :
       SetFormState([ formState EXCEPT
         !.lineItems = Append(formState.lineItems, createLineItem(id, NoService)) ])
  /\ lastOp' = Op("addItem", EmptyString)
  /\ prompt' = NoPrompt
  /\ UNCHANGED <<mounted, printVars, layoutMode, savedInvoices, selectedSavedInvoiceId, draftPayload,
                 hasUserSelectedLayout, storageVars, firedSinceLoad>>

\* onClick of the remove button of a rendered row
handleRemoveLineItem ==
  /\ mounted
  /\ \E i \in DOMAIN formState.lineItems :
       LET id == formState.lineItems[i].id
       IN  /\ SetFormState([ formState EXCEPT
                 !.lineItems = IF Len(formState.lineItems) > 1
                                 THEN SelectSeq(formState.lineItems, LAMBDA item : item.id # id)
                                 ELSE formState.lineItems ])
           /\ lastOp' = Op("removeItem", id)
  /\ prompt' = NoPrompt
  /\ UNCHANGED <<mounted, printVars, layoutMode, savedInvoices, selectedSavedInvoiceId, draftPayload,
                 hasUserSelectedLayout, storageVars, firedSinceLoad>>

\* ------------------------------------------------------------------------
\* Totals
\* ------------------------------------------------------------------------
\* amounts are fixed-point numbers with four decimals, so that the two
\* divisions by 100 are exact on whole-number entries
Scale == 10000
Amount(n) == n * Scale
\* n / 100 as an amount
Hundredth(n) == n * (Scale \div 100)

\* lineItems.reduce((sum, item) => sum + item.quantity * item.unitPrice, 0)
RECURSIVE Subtotal(_)
Subtotal(items) ==
  IF items = << >> THEN 0
  ELSE LET item == items[Len(items)]
       IN  Subtotal(SubSeq(items, 1, Len(items) - 1))
             + Amount(item.quantity * item.unitPrice)

\* a plausible slip: the discount is taken on the unit price, not on the line
RECURSIVE DiscountTotalPerUnit(_)
DiscountTotalPerUnit(items) ==
  IF items = << >> THEN 0
  ELSE LET item == items[Len(items)]
       IN  DiscountTotalPerUnit(SubSeq(items, 1, Len(items) - 1))
             + Hundredth(item.unitPrice * item.discountRate)

\* lineItems.reduce((sum, item) =>
\*   sum + (item.quantity * item.unitPrice * item.discountRate) / 100, 0)
RECURSIVE DiscountTotal(_)
DiscountTotal(items) ==
  IF items = << >> THEN 0
  ELSE LET item == items[Len(items)]
       IN  DiscountTotal(SubSeq(items, 1, Len(items) - 1))
             + Hundredth(item.quantity * item.unitPrice * item.discountRate)

\* a plausible slip: the taxable amount without Math.max
totalsUnclamped(state) ==
  LET subtotal == Subtotal(state.lineItems)
      discountTotal == DiscountTotal(state.lineItems)
      taxableAmount == subtotal - discountTotal
      taxAmount == (taxableAmount * state.taxRate) \div 100
  IN  [ subtotal |-> subtotal,
        discountTotal |-> discountTotal,
        taxableAmount |-> taxableAmount,
        taxAmount |-> taxAmount,
        total |-> taxableAmount + taxAmount ]

totals(state) ==
  LET subtotal == Subtotal(state.lineItems)
      discountTotal == DiscountTotal(state.lineItems)
      taxableAmount == Max(subtotal - discountTotal, 0)
      taxAmount == (taxableAmount * state.taxRate) \div 100
  IN  [ subtotal |-> subtotal,
        discountTotal |-> discountTotal,
        taxableAmount |-> taxableAmount,
        taxAmount |-> taxAmount,
        total |-> taxableAmount + taxAmount ]

\* ------------------------------------------------------------------------
\* Archive handlers
\* ------------------------------------------------------------------------
\* handlers that leave the working state alone do not re-run the autosave effect
NoFormChange == UNCHANGED <<formState, timerVars, burstLen, writesSinceMutation>>

\* prev.filter((inv) => inv.id !== id)
RECURSIVE FilterOutId(_, _)
FilterOutId(list, id) ==
  IF list = << >> THEN << >>
  ELSE IF Head(list).id # id THEN <<Head(list)>> \o FilterOutId(Tail(list), id)
       ELSE FilterOutId(Tail(list), id)

\* the StoredInvoice object save and duplicate build
NewStoredInvoice(id, now) ==
  [ id |-> id,
    invoiceNumber |-> formState.meta.invoiceNumber,
    savedAt |-> toISOString(now),
    formState |-> cloneFormState(formState) ]

\* a plausible slip: the new entry is appended, [...prev, invoice]
PrependAndSelectAppends(invoice) ==
  /\ SetSavedInvoices(savedInvoices \o <<invoice>>)
  /\ selectedSavedInvoiceId' = invoice.id

\* setSavedInvoices((prev) => [invoice, ...prev]); setSelectedSavedInvoiceId(invoice.id)
PrependAndSelect(invoice) ==
  /\ SetSavedInvoices(<<invoice>> \o savedInvoices)
  /\ selectedSavedInvoiceId' = invoice.id

\* a plausible slip: validation issues refuse the save whatever the answer
handleSaveInvoiceCopyBlocks(proceed) ==
  /\ mounted
  /\ prompt' = ConfirmIssues(validateInvoice(formState), proceed)
  /\ IF validateInvoice(formState) # << >>
       THEN /\ lastOp' = Op("saveDeclined", EmptyString)
            /\ UNCHANGED <<savedInvoices, archiveStorage, selectedSavedInvoiceId>>
       ELSE /\ Len(savedInvoices) < MaxArchive
            /\ \E id \in Ids, now \in Times :
                 PrependAndSelect(NewStoredInvoice(id, now))
            /\ lastOp' = Op("save", EmptyString)
  /\ NoFormChange
  /\ UNCHANGED <<quotaExceeded, mounted, printVars, layoutMode, draftPayload, hasUserSelectedLayout,
                 draftStorage, firedSinceLoad>>

\* `proceed` is the answer of window.confirm, asked only when there are issues
handleSaveInvoiceCopy(proceed) ==
  /\ mounted
  /\ prompt' = ConfirmIssues(validateInvoice(formState), proceed)
  /\ IF validateInvoice(formState) # << >> /\ ~proceed
       THEN /\ lastOp' = Op("saveDeclined", EmptyString)
            /\ UNCHANGED <<savedInvoices, archiveStorage, selectedSavedInvoiceId>>
       ELSE /\ Len(savedInvoices) < MaxArchive
            /\ \E id \in Ids, now \in Times :
                 PrependAndSelect(NewStoredInvoice(id, now))
            /\ lastOp' = Op("save", EmptyString)
  /\ NoFormChange
  /\ UNCHANGED <<quotaExceeded, mounted, printVars, layoutMode, draftPayload, hasUserSelectedLayout, draftStorage,
                 firedSinceLoad>>

\* a plausible slip: update refreshes the embedded state and the time, not
\* the invoice number beside them
UpdatedArchiveKeepsNumber(list, id, now) ==
  [ i \in DOMAIN list |->
      IF list[i].id = id
        THEN [ list[i] EXCEPT !.savedAt = toISOString(now),
                              !.formState = cloneFormState(formState) ]
        ELSE list[i] ]

\* prev.map((inv) => inv.id === selectedSavedInvoiceId ? {...inv, ...} : inv)
UpdatedArchive(list, id, now) ==
  [ i \in DOMAIN list |->
      IF list[i].id = id
        THEN [ list[i] EXCEPT !.invoiceNumber = formState.meta.invoiceNumber,
                              !.savedAt = toISOString(now),
                              !.formState = cloneFormState(formState) ]
        ELSE list[i] ]

handleUpdateSavedInvoiceCopy(proceed) ==
  /\ mounted
  /\ IF selectedSavedInvoiceId = EmptyString
       THEN /\ lastOp' = Op("noop", EmptyString)
            /\ prompt' = NoPrompt
            /\ UNCHANGED <<savedInvoices, archiveStorage>>
       ELSE IF validateInvoice(formState) # << >> /\ ~proceed
         THEN /\ lastOp' = Op("updateDeclined", EmptyString)
              /\ prompt' = ConfirmIssues(validateInvoice(formState), proceed)
              /\ UNCHANGED <<savedInvoices, archiveStorage>>
         ELSE /\ prompt' = ConfirmIssues(validateInvoice(formState), proceed)
              /\ \E now \in Times :
                   SetSavedInvoices(UpdatedArchive(savedInvoices, selectedSavedInvoiceId, now))
              /\ lastOp' = Op("update", EmptyString)
  /\ NoFormChange
  /\ UNCHANGED <<quotaExceeded, mounted, printVars, layoutMode, selectedSavedInvoiceId, draftPayload,
                 hasUserSelectedLayout, draftStorage, firedSinceLoad>>

handleDuplicateSavedInvoiceCopy ==
  /\ mounted
  /\ Len(savedInvoices) < MaxArchive
  /\ \E id \in Ids, now \in Times :
       PrependAndSelect(NewStoredInvoice(id, now))
  /\ lastOp' = Op("duplicate", EmptyString)
  /\ NoFormChange
  /\ prompt' = NoPrompt
  /\ UNCHANGED <<quotaExceeded, mounted, printVars, layoutMode, draftPayload, hasUserSelectedLayout, draftStorage,
                 firedSinceLoad>>

\* savedInvoices.find((inv) => inv.id === id): the index of the first match, 0 if none
FindIndex(list, id) ==
  IF \E i \in DOMAIN list : list[i].id = id
    THEN CHOOSE i \in DOMAIN list : list[i].id = id /\ \A j \in 1..(i - 1) : list[j].id # id
    ELSE 0

\* a plausible slip: the selection is set before the entry is looked up
handleLoadSavedInvoiceSelectsAnyway(id, selection) ==
  LET match == FindIndex(savedInvoices, id)
  IN  /\ selectedSavedInvoiceId' = id
      /\ IF match = 0
           THEN UNCHANGED <<formState, timerVars, burstLen, writesSinceMutation,
                            layoutMode, hasUserSelectedLayout>>
           ELSE /\ SetFormState(cloneFormState(savedInvoices[match].formState))
                /\ hasUserSelectedLayout' = TRUE
                /\ layoutMode' = "preview"

\* a plausible slip: the layout is left as it is
handleLoadSavedInvoiceKeepsLayout(id, selection) ==
  LET match == FindIndex(savedInvoices, id)
  IN  IF match = 0
        THEN /\ selectedSavedInvoiceId' = selection
             /\ UNCHANGED <<formState, timerVars, burstLen, writesSinceMutation,
                            layoutMode, hasUserSelectedLayout>>
        ELSE /\ SetFormState(cloneFormState(savedInvoices[match].formState))
             /\ selectedSavedInvoiceId' = savedInvoices[match].id
             /\ UNCHANGED <<layoutMode, hasUserSelectedLayout>>

\* `selection` is the value the selection has when the handler is entered
\* (the archive <select> has just set it, a direct call finds it as it was)
handleLoadSavedInvoice(id, selection) ==
  LET match == FindIndex(savedInvoices, id)
  IN  IF match = 0
        THEN /\ selectedSavedInvoiceId' = selection
             /\ UNCHANGED <<formState, timerVars, burstLen, writesSinceMutation,
                            layoutMode, hasUserSelectedLayout>>
        ELSE /\ SetFormState(cloneFormState(savedInvoices[match].formState))
             /\ selectedSavedInvoiceId' = savedInvoices[match].id
             /\ hasUserSelectedLayout' = TRUE
             /\ layoutMode' = "preview"

\* handleLoadSavedInvoice(id) called with an arbitrary id
LoadSavedInvoice(id) ==
  /\ mounted
  /\ handleLoadSavedInvoice(id, selectedSavedInvoiceId)
  /\ lastOp' = Op("load", id)
  /\ prompt' = NoPrompt
  /\ UNCHANGED <<mounted, printVars, savedInvoices, draftPayload, storageVars, firedSinceLoad>>

\* the values the archive <select> offers: '' and the ids of the entries
SelectOptions == { EmptyString } \cup { savedInvoices[i].id : i \in DOMAIN savedInvoices }

\* onChange of the archive <select>: setSelectedSavedInvoiceId(nextId), then
\* handleLoadSavedInvoice(nextId) when nextId is not ''
ArchiveSelectChange(nextId) ==
  /\ mounted
  /\ nextId # selectedSavedInvoiceId
  /\ IF nextId # EmptyString
       THEN handleLoadSavedInvoice(nextId, nextId)
       ELSE /\ selectedSavedInvoiceId' = nextId
            /\ UNCHANGED <<formState, timerVars, burstLen, writesSinceMutation,
                           layoutMode, hasUserSelectedLayout>>
  /\ lastOp' = Op("select", EmptyString)
  /\ prompt' = NoPrompt
  /\ UNCHANGED <<mounted, printVars, savedInvoices, draftPayload, storageVars, firedSinceLoad>>

\* a plausible slip: the selection is reset before the question is asked
handleDeleteSavedInvoiceDeselectsFirst(id, ok) ==
  /\ mounted
  /\ prompt' = Prompt(DeleteQuestion, ok)
  /\ selectedSavedInvoiceId' =
       IF selectedSavedInvoiceId = id THEN EmptyString ELSE selectedSavedInvoiceId
  /\ IF ~ok
       THEN /\ lastOp' = Op("deleteDeclined", EmptyString)
            /\ UNCHANGED <<savedInvoices, archiveStorage>>
       ELSE /\ SetSavedInvoices(FilterOutId(savedInvoices, id))
            /\ lastOp' = Op("delete", id)
  /\ NoFormChange
  /\ UNCHANGED <<quotaExceeded, mounted, printVars, layoutMode, draftPayload, hasUserSelectedLayout, draftStorage,
                 firedSinceLoad>>

\* a plausible slip: a confirmed delete leaves the selection as it is
handleDeleteSavedInvoiceKeepsSelection(id, ok) ==
  /\ mounted
  /\ prompt' = Prompt(DeleteQuestion, ok)
  /\ IF ~ok
       THEN /\ lastOp' = Op("deleteDeclined", EmptyString)
            /\ UNCHANGED <<savedInvoices, archiveStorage, selectedSavedInvoiceId>>
       ELSE /\ SetSavedInvoices(FilterOutId(savedInvoices, id))
            /\ selectedSavedInvoiceId' = selectedSavedInvoiceId
            /\ lastOp' = Op("delete", id)
  /\ NoFormChange
  /\ UNCHANGED <<quotaExceeded, mounted, printVars, layoutMode, draftPayload, hasUserSelectedLayout, draftStorage,
                 firedSinceLoad>>

\* `ok` is the answer of window.confirm
handleDeleteSavedInvoice(id, ok) ==
  /\ mounted
  /\ prompt' = Prompt(DeleteQuestion, ok)
  /\ IF ~ok
       THEN /\ lastOp' = Op("deleteDeclined", EmptyString)
            /\ UNCHANGED <<savedInvoices, archiveStorage, selectedSavedInvoiceId>>
       ELSE /\ SetSavedInvoices(FilterOutId(savedInvoices, id))
            /\ selectedSavedInvoiceId' =
                 IF selectedSavedInvoiceId = id THEN EmptyString ELSE selectedSavedInvoiceId
            /\ lastOp' = Op("delete", id)
  /\ NoFormChange
  /\ UNCHANGED <<quotaExceeded, mounted, printVars, layoutMode, draftPayload, hasUserSelectedLayout, draftStorage,
                 firedSinceLoad>>

\* onClick of the Delete button: disabled without a selection, it deletes the
\* selected entry
DeleteButton(ok) ==
  /\ selectedSavedInvoiceId # EmptyString
  /\ handleDeleteSavedInvoice(selectedSavedInvoiceId, ok)

\* ------------------------------------------------------------------------
\* Export
\* ------------------------------------------------------------------------
\* the download an export produces: anchor.download and the text of the blob
Download(name, payload) == [ download |-> name, payload |-> payload ]
\* the record of an export: the id asked for and the download, Null if none
ExportOp(id, artifact) == [ op |-> "export", arg |-> id, artifact |-> artifact ]

\* `${match.invoiceNumber || 'invoice'}-${match.id}.json`
DownloadName(match) ==
  (IF match.invoiceNumber = EmptyString THEN <<CharInvoice>> ELSE match.invoiceNumber)
    \o <<CharDash>> \o match.id \o <<CharJson>>

\* JSON.stringify(match, null, 2)
StringifyStoredInvoice(match) == StringifyArchive(<< match >>)[1]

\* a plausible slip: the working state is exported in place of the entry's
handleExportSavedInvoiceWorkingState(id) ==
  /\ mounted
  /\ LET index == FindIndex(savedInvoices, id)
     IN  lastOp' =
           IF index = 0 THEN ExportOp(id, Null)
           ELSE LET match == [ savedInvoices[index] EXCEPT !.formState = formState ]
                IN  ExportOp(id, Download(DownloadName(match), StringifyStoredInvoice(match)))
  /\ prompt' = NoPrompt
  /\ NoFormChange
  /\ UNCHANGED <<mounted, printVars, layoutMode, savedInvoices, selectedSavedInvoiceId,
                 draftPayload, hasUserSelectedLayout, storageVars, firedSinceLoad>>

handleExportSavedInvoice(id) ==
  /\ mounted
  /\ LET index == FindIndex(savedInvoices, id)
     IN  lastOp' =
           IF index = 0 THEN ExportOp(id, Null)
           ELSE LET match == savedInvoices[index]
                IN  ExportOp(id, Download(DownloadName(match), StringifyStoredInvoice(match)))
  /\ prompt' = NoPrompt
  /\ NoFormChange
  /\ UNCHANGED <<mounted, printVars, layoutMode, savedInvoices, selectedSavedInvoiceId,
                 draftPayload, hasUserSelectedLayout, storageVars, firedSinceLoad>>

\* ------------------------------------------------------------------------
\* Draft handlers
\* ------------------------------------------------------------------------
\* a plausible slip: restoring consumes the draft
handleRestoreDraftConsumes ==
  /\ mounted
  /\ IF draftPayload = Null
       THEN /\ lastOp' = Op("noop", EmptyString)
            /\ UNCHANGED <<formState, timerVars, burstLen, writesSinceMutation,
                           layoutMode, hasUserSelectedLayout, draftPayload, draftStorage>>
       ELSE /\ SetFormState(cloneFormState(draftPayload.formState))
            /\ hasUserSelectedLayout' = TRUE
            /\ layoutMode' = "form"
            /\ draftPayload' = Null
            /\ draftStorage' = Null
            /\ lastOp' = Op("restore", EmptyString)
  /\ prompt' = NoPrompt
  /\ UNCHANGED <<quotaExceeded, mounted, printVars, savedInvoices, selectedSavedInvoiceId, archiveStorage,
                 firedSinceLoad>>

handleRestoreDraft ==
  /\ mounted
  /\ IF draftPayload = Null
       THEN /\ lastOp' = Op("noop", EmptyString)
            /\ UNCHANGED <<formState, timerVars, burstLen, writesSinceMutation,
                           layoutMode, hasUserSelectedLayout>>
       ELSE IF draftPayload = EmptyObject
       \* draftPayload.formState is undefined: JSON.parse(JSON.stringify(undefined))
       \* throws a SyntaxError and the handler is left
       THEN /\ lastOp' = Op("restoreThrew", EmptyString)
            /\ UNCHANGED <<formState, timerVars, burstLen, writesSinceMutation,
                           layoutMode, hasUserSelectedLayout>>
       ELSE /\ SetFormState(cloneFormState(draftPayload.formState))
            /\ hasUserSelectedLayout' = TRUE
            /\ layoutMode' = "form"
            /\ lastOp' = Op("restore", EmptyString)
  /\ prompt' = NoPrompt
  /\ UNCHANGED <<mounted, printVars, savedInvoices, selectedSavedInvoiceId, draftPayload, storageVars,
                 firedSinceLoad>>

\* a plausible slip: only the in-memory reference is dropped
handleClearDraftMemoryOnly ==
  /\ mounted
  /\ draftPayload' = Null
  /\ lastOp' = Op("clear", EmptyString)
  /\ NoFormChange
  /\ prompt' = NoPrompt
  /\ UNCHANGED <<mounted, printVars, layoutMode, savedInvoices, selectedSavedInvoiceId,
                 hasUserSelectedLayout, storageVars, firedSinceLoad>>

\* a plausible slip: clear also cancels the pending autosave
handleClearDraftCancels ==
  /\ mounted
  /\ draftStorage' = Null
  /\ draftPayload' = Null
  /\ timers' = AutosaveCleanup(timers, effectHandle)
  /\ lastOp' = Op("clear", EmptyString)
  /\ prompt' = NoPrompt
  /\ UNCHANGED <<quotaExceeded, mounted, printVars, formState, effectHandle, burstLen,
                 writesSinceMutation, layoutMode, savedInvoices, selectedSavedInvoiceId,
                 hasUserSelectedLayout, archiveStorage, firedSinceLoad>>

handleClearDraft ==
  /\ mounted
  /\ draftStorage' = Null
  /\ draftPayload' = Null
  /\ lastOp' = Op("clear", EmptyString)
  /\ NoFormChange
  /\ prompt' = NoPrompt
  /\ UNCHANGED <<quotaExceeded, mounted, printVars, layoutMode, savedInvoices, selectedSavedInvoiceId,
                 hasUserSelectedLayout, archiveStorage, firedSinceLoad>>

\* ------------------------------------------------------------------------
\* Specification
\* ------------------------------------------------------------------------
\* ------------------------------------------------------------------------
\* Layout
\* ------------------------------------------------------------------------
LayoutModes == { "split", "form", "preview" }

\* the layout buttons
handleLayoutModeChange(mode) ==
  /\ mounted
  /\ hasUserSelectedLayout' = TRUE
  /\ layoutMode' = mode
  /\ lastOp' = Op("layout", mode)
  /\ prompt' = NoPrompt
  /\ NoFormChange
  /\ UNCHANGED <<mounted, printVars, savedInvoices, selectedSavedInvoiceId, draftPayload,
                 storageVars, firedSinceLoad>>

\* the record of a 'change' event: event.matches
MediaOp(matches) == [ op |-> "media", arg |-> EmptyString, matches |-> matches ]

\* a plausible slip: applyLayout does not look at the flag
MediaQueryChangeIgnoresFlag(matches) ==
  /\ mounted
  /\ layoutMode' = IF matches THEN "split" ELSE "form"
  /\ lastOp' = MediaOp(matches)
  /\ prompt' = NoPrompt
  /\ NoFormChange
  /\ UNCHANGED <<mounted, printVars, savedInvoices, selectedSavedInvoiceId, draftPayload,
                 hasUserSelectedLayout, storageVars, firedSinceLoad>>

\* the 'change' event of the media query (min-width: 1280px): applyLayout
MediaQueryChange(matches) ==
  /\ mounted
  /\ layoutMode' = IF hasUserSelectedLayout THEN layoutMode
                   ELSE IF matches THEN "split" ELSE "form"
  /\ lastOp' = MediaOp(matches)
  /\ prompt' = NoPrompt
  /\ NoFormChange
  /\ UNCHANGED <<mounted, printVars, savedInvoices, selectedSavedInvoiceId, draftPayload,
                 hasUserSelectedLayout, storageVars, firedSinceLoad>>

\* ------------------------------------------------------------------------
\* Print
\* ------------------------------------------------------------------------
\* the closure `restore` of one print request
RestoreClosure(previousLayoutMode, previousUserSelection) ==
  [ layoutMode |-> previousLayoutMode, userSelection |-> previousUserSelection ]

\* the listeners run in the order of their registration; each one removes
\* itself and puts back the layout and the flag it has captured
RECURSIVE RunRestores(_, _)
RunRestores(listeners, current) ==
  IF listeners = << >> THEN current
  ELSE RunRestores(Tail(listeners), Head(listeners))

\* `proceed` is the answer of window.confirm, asked only when there are issues
handlePrintInvoice(proceed) ==
  /\ mounted
  /\ prompt' = ConfirmIssues(validateInvoice(formState), proceed)
  /\ IF validateInvoice(formState) # << >> /\ ~proceed
       THEN /\ lastOp' = Op("printDeclined", EmptyString)
            /\ UNCHANGED <<layoutMode, hasUserSelectedLayout, printVars>>
       ELSE /\ printTimers < MaxPrints
            /\ Len(afterprintListeners) < MaxPrints
            /\ hasUserSelectedLayout' = TRUE
            /\ layoutMode' = "preview"
            /\ afterprintListeners' =
                 Append(afterprintListeners, RestoreClosure(layoutMode, hasUserSelectedLayout))
            /\ printTimers' = printTimers + 1
            /\ printing' = printing
            /\ lastOp' = Op("printRequest", EmptyString)
  /\ NoFormChange
  /\ UNCHANGED <<mounted, savedInvoices, selectedSavedInvoiceId, draftPayload, storageVars,
                 firedSinceLoad>>

\* a plausible slip: restore is called right after window.print(), taken to
\* return when the dialog is closed
PrintTimerFireRestores ==
  /\ printTimers > 0
  /\ ~printing
  /\ printTimers' = printTimers - 1
  /\ printing' = TRUE
  /\ LET after == RunRestores(afterprintListeners,
                              RestoreClosure(layoutMode, hasUserSelectedLayout))
     IN  /\ layoutMode' = after.layoutMode
         /\ hasUserSelectedLayout' = after.userSelection
  /\ afterprintListeners' = << >>
  /\ lastOp' = Op("print", EmptyString)
  /\ prompt' = NoPrompt
  /\ UNCHANGED <<mounted, formState, savedInvoices, selectedSavedInvoiceId, draftPayload,
                 storageVars, timerVars, burstLen, writesSinceMutation, firedSinceLoad>>

\* window.setTimeout(() => window.print(), 50) fires: the print dialog opens
PrintTimerFire ==
  /\ printTimers > 0
  /\ ~printing
  /\ printTimers' = printTimers - 1
  /\ printing' = TRUE
  /\ lastOp' = Op("print", EmptyString)
  /\ prompt' = NoPrompt
  /\ UNCHANGED <<mounted, componentVars, storageVars, timerVars, burstLen,
                 writesSinceMutation, firedSinceLoad, afterprintListeners>>

\* a plausible slip: restore does not call removeEventListener
AfterPrintKeepsListeners ==
  /\ printing
  /\ printing' = FALSE
  /\ LET after == RunRestores(afterprintListeners,
                              RestoreClosure(layoutMode, hasUserSelectedLayout))
     IN  /\ layoutMode' = after.layoutMode
         /\ hasUserSelectedLayout' = after.userSelection
  /\ afterprintListeners' = afterprintListeners
  /\ lastOp' = Op("afterprint", EmptyString)
  /\ prompt' = NoPrompt
  /\ UNCHANGED <<mounted, formState, savedInvoices, selectedSavedInvoiceId, draftPayload,
                 storageVars, timerVars, burstLen, writesSinceMutation, firedSinceLoad,
                 printTimers>>

\* the 'afterprint' event of the window
AfterPrint ==
  /\ printing
  /\ printing' = FALSE
  /\ LET after == RunRestores(afterprintListeners,
                              RestoreClosure(layoutMode, hasUserSelectedLayout))
     IN  /\ layoutMode' = after.layoutMode
         /\ hasUserSelectedLayout' = after.userSelection
  /\ afterprintListeners' = << >>
  /\ lastOp' = Op("afterprint", EmptyString)
  /\ prompt' = NoPrompt
  /\ UNCHANGED <<mounted, formState, savedInvoices, selectedSavedInvoiceId, draftPayload,
                 storageVars, timerVars, burstLen, writesSinceMutation, firedSinceLoad,
                 printTimers>>

\* the texts typed into the number inputs while the totals are studied:
\* whole numbers, a discount rate above 100 among them
TotalsTaxTexts == { Numeral(0) }
TotalsItemTexts ==
  { <<"quantity", Numeral(2)>>, <<"unitPrice", Numeral(500)>>,
    <<"discountRate", Numeral(10)>>, <<"discountRate", Numeral(150)>> }

\* the texts typed into the number inputs while the entry handling is
\* studied: negative numbers, the empty text and texts that are no numerals
EntryTaxTexts == { Numeral(-5), Numeral(5), EmptyText, OtherText }
EntryItemTexts ==
  { <<"unitPrice", Numeral(-1)>>, <<"unitPrice", Numeral(500)>>,
    <<"unitPrice", EmptyText>>, <<"unitPrice", OtherText>>,
    <<"quantity", Numeral(2)>>, <<"quantity", OtherText>>,
    <<"discountRate", Numeral(10)>>, <<"discountRate", OtherText>> }

Next ==
  \/ MountBuilder
  \/ UnmountBuilder
  \/ AutosaveFire
  \/ \E inp \in MetaInputs : handleMetaChange(inp[1], inp[2])
  \/ handleRegenerateInvoiceNumber
  \/ handleNewInvoice
  \/ \E text \in TotalsTaxTexts \cup EntryTaxTexts : handleTaxRateChange(text)
  \/ \E inp \in TotalsItemTexts \cup EntryItemTexts : LineItemNumberInput(inp[1], inp[2])
  \/ handleAddLineItem
  \/ handleRemoveLineItem
  \/ \E proceed \in BOOLEAN : handleSaveInvoiceCopy(proceed)
  \/ \E proceed \in BOOLEAN : handleUpdateSavedInvoiceCopy(proceed)
  \/ handleDuplicateSavedInvoiceCopy
  \/ \E nextId \in SelectOptions : ArchiveSelectChange(nextId)
  \/ \E id \in Ids, ok \in BOOLEAN : handleDeleteSavedInvoice(id, ok)
  \/ \E id \in Ids : LoadSavedInvoice(id)
  \/ handleRestoreDraft
  \/ handleClearDraft
  \/ \E proceed \in BOOLEAN : handlePrintInvoice(proceed)
  \/ PrintTimerFire
  \/ AfterPrint
  \/ \E mode \in LayoutModes : handleLayoutModeChange(mode)
  \/ \E matches \in BOOLEAN : MediaQueryChange(matches)
  \/ \E exceeded \in BOOLEAN : StorageQuota(exceeded)
  \/ AutosaveWriteThrows
  \/ ArchivePersistThrows
  \/ MountThrows
  \/ \E id \in Ids : handleExportSavedInvoice(id)
  \/ \E serviceId \in ServiceOptions : ServiceSelectChange(serviceId)
  \/ \E ok \in BOOLEAN : DeleteButton(ok)

Spec == Init /\ [][Next]_vars

\* The archive: the builder is opened once and the archive is worked on
NextArchive ==
  \/ MountBuilder
  \/ \E inp \in MetaInputs : handleMetaChange(inp[1], inp[2])
  \/ handleRegenerateInvoiceNumber
  \/ \E proceed \in BOOLEAN : handleSaveInvoiceCopy(proceed)
  \/ \E proceed \in BOOLEAN : handleUpdateSavedInvoiceCopy(proceed)
  \/ handleDuplicateSavedInvoiceCopy
  \/ \E nextId \in SelectOptions : ArchiveSelectChange(nextId)
  \/ \E id \in Ids, ok \in BOOLEAN : handleDeleteSavedInvoice(id, ok)

SpecArchive == Init /\ [][NextArchive]_vars

\* The draft: the builder is opened and left, the working state is edited
\* and autosaved, the draft is restored and cleared
NextDraft ==
  \/ MountBuilder
  \/ UnmountBuilder
  \/ AutosaveFire
  \/ \E inp \in MetaInputs : handleMetaChange(inp[1], inp[2])
  \/ handleRegenerateInvoiceNumber
  \/ handleNewInvoice
  \/ handleRestoreDraft
  \/ handleClearDraft

SpecDraft == Init /\ [][NextDraft]_vars

\* Clearing the draft while an archive and a selection exist
NextClear ==
  \/ MountBuilder
  \/ AutosaveFire
  \/ \E inp \in MetaInputs : handleMetaChange(inp[1], inp[2])
  \/ \E proceed \in BOOLEAN : handleSaveInvoiceCopy(proceed)
  \/ handleClearDraft

SpecClear == Init /\ [][NextClear]_vars

\* Loading: copies are saved and deleted, and entries are loaded by id
NextLoad ==
  \/ MountBuilder
  \/ \E inp \in MetaInputs : handleMetaChange(inp[1], inp[2])
  \/ handleRegenerateInvoiceNumber
  \/ \E proceed \in BOOLEAN : handleSaveInvoiceCopy(proceed)
  \/ \E nextId \in SelectOptions : ArchiveSelectChange(nextId)
  \/ \E id \in Ids, ok \in BOOLEAN : handleDeleteSavedInvoice(id, ok)
  \/ \E id \in Ids : LoadSavedInvoice(id)

SpecLoad == Init /\ [][NextLoad]_vars

\* Confirmation: the operations that validate (save, update, print) on a
\* working state with and without issues
NextConfirm ==
  \/ MountBuilder
  \/ \E inp \in MetaInputs : handleMetaChange(inp[1], inp[2])
  \/ \E proceed \in BOOLEAN : handleSaveInvoiceCopy(proceed)
  \/ \E proceed \in BOOLEAN : handleUpdateSavedInvoiceCopy(proceed)
  \/ \E proceed \in BOOLEAN : handlePrintInvoice(proceed)
  \/ PrintTimerFire
  \/ AfterPrint

SpecConfirm == Init /\ [][NextConfirm]_vars

\* Totals: line items are added, removed and edited with whole numbers
NextTotals ==
  \/ MountBuilder
  \/ \E text \in TotalsTaxTexts : handleTaxRateChange(text)
  \/ \E inp \in TotalsItemTexts : LineItemNumberInput(inp[1], inp[2])
  \/ handleAddLineItem
  \/ handleRemoveLineItem

SpecTotals == Init /\ [][NextTotals]_vars

\* Entry: arbitrary texts are typed into the number inputs
NextEntry ==
  \/ MountBuilder
  \/ \E text \in EntryTaxTexts : handleTaxRateChange(text)
  \/ \E inp \in EntryItemTexts : LineItemNumberInput(inp[1], inp[2])

SpecEntry == Init /\ [][NextEntry]_vars

\* Printing: print is requested, the dialog opens and closes, and between
\* these print is requested again, the layout is changed, a draft is restored
NextPrint ==
  \/ MountBuilder
  \/ AutosaveFire
  \/ handleRestoreDraft
  \/ \E mode \in LayoutModes : handleLayoutModeChange(mode)
  \/ \E matches \in BOOLEAN : MediaQueryChange(matches)
  \/ \E proceed \in BOOLEAN : handlePrintInvoice(proceed)
  \/ PrintTimerFire
  \/ AfterPrint

SpecPrint == Init /\ [][NextPrint]_vars

\* Selection and export: copies are saved, selected, exported and deleted,
\* and new invoices are started
NextSelection ==
  \/ MountBuilder
  \/ \E inp \in MetaInputs : handleMetaChange(inp[1], inp[2])
  \/ handleNewInvoice
  \/ \E proceed \in BOOLEAN : handleSaveInvoiceCopy(proceed)
  \/ \E nextId \in SelectOptions : ArchiveSelectChange(nextId)
  \/ \E id \in Ids, ok \in BOOLEAN : handleDeleteSavedInvoice(id, ok)
  \/ \E id \in Ids : handleExportSavedInvoice(id)

SpecSelection == Init /\ [][NextSelection]_vars

\* Services: line items are added and their services changed
NextService ==
  \/ MountBuilder
  \/ handleAddLineItem
  \/ \E serviceId \in ServiceOptions : ServiceSelectChange(serviceId)

SpecService == Init /\ [][NextService]_vars

\* Line items: rows are added and removed, and the working state is replaced
\* by a new invoice or the restored draft
NextItems ==
  \/ MountBuilder
  \/ AutosaveFire
  \/ handleAddLineItem
  \/ handleRemoveLineItem
  \/ handleNewInvoice
  \/ handleRestoreDraft

SpecItems == Init /\ [][NextItems]_vars

\* Declined prompts: every operation that asks (save, update, print, delete)
NextDecline ==
  \/ MountBuilder
  \/ \E inp \in MetaInputs : handleMetaChange(inp[1], inp[2])
  \/ \E proceed \in BOOLEAN : handleSaveInvoiceCopy(proceed)
  \/ \E proceed \in BOOLEAN : handleUpdateSavedInvoiceCopy(proceed)
  \/ \E id \in Ids, ok \in BOOLEAN : handleDeleteSavedInvoice(id, ok)
  \/ \E proceed \in BOOLEAN : handlePrintInvoice(proceed)
  \/ PrintTimerFire
  \/ AfterPrint

SpecDecline == Init /\ [][NextDecline]_vars

\* The archive controls as the page offers them: the Delete button deletes
\* the selected entry, the dropdown loads an entry of the archive
NextControls ==
  \/ MountBuilder
  \/ UnmountBuilder
  \/ \E inp \in MetaInputs : handleMetaChange(inp[1], inp[2])
  \/ handleNewInvoice
  \/ \E proceed \in BOOLEAN : handleSaveInvoiceCopy(proceed)
  \/ \E proceed \in BOOLEAN : handleUpdateSavedInvoiceCopy(proceed)
  \/ handleDuplicateSavedInvoiceCopy
  \/ \E nextId \in SelectOptions : ArchiveSelectChange(nextId)
  \/ \E ok \in BOOLEAN : DeleteButton(ok)

SpecControls == Init /\ [][NextControls]_vars

\* The draft service with writes that can fail
NextIdle ==
  \/ MountBuilder
  \/ UnmountBuilder
  \/ AutosaveFire
  \/ AutosaveWriteThrows
  \/ \E exceeded \in BOOLEAN : StorageQuota(exceeded)
  \/ MountThrows
  \/ \E inp \in MetaInputs : handleMetaChange(inp[1], inp[2])
  \/ handleRestoreDraft
  \/ handleClearDraft

SpecIdle == Init /\ [][NextIdle]_vars

\* Layout: the layout buttons, load and print set the flag, the viewport
\* changes (the restore of the draft is part of SpecPrint)
NextLayout ==
  \/ MountBuilder
  \/ \E proceed \in BOOLEAN : handleSaveInvoiceCopy(proceed)
  \/ \E id \in Ids : LoadSavedInvoice(id)
  \/ \E mode \in LayoutModes : handleLayoutModeChange(mode)
  \/ \E matches \in BOOLEAN : MediaQueryChange(matches)
  \/ \E proceed \in BOOLEAN : handlePrintInvoice(proceed)
  \/ PrintTimerFire
  \/ AfterPrint

SpecLayout == Init /\ [][NextLayout]_vars

\* Failing writes: the quota of localStorage is used up and freed while
\* copies are saved and the autosave timer fires
NextStorage ==
  \/ MountBuilder
  \/ \E proceed \in BOOLEAN : handleSaveInvoiceCopy(proceed)
  \/ \E exceeded \in BOOLEAN : StorageQuota(exceeded)
  \/ AutosaveWriteThrows
  \/ ArchivePersistThrows
  \/ MountThrows

SpecStorage == Init /\ [][NextStorage]_vars

\* ------------------------------------------------------------------------
\* Construction on sampled contents of localStorage
\* ------------------------------------------------------------------------
SampleFormState == createInitialState(<<1>>, <<1>>, DayOf(1))
SampleDraft == [ savedAt |-> toISOString(1), formState |-> SampleFormState ]
SampleEntry ==
  [ id |-> <<1>>,
    invoiceNumber |-> SampleFormState.meta.invoiceNumber,
    savedAt |-> toISOString(1),
    formState |-> SampleFormState ]

\* absent, no JSON, JSON of another shape, a written archive
ArchiveItemSamples ==
  { Null, MalformedText, EmptyObjectText, JsonText(StringifyArchive(<< SampleEntry >>)) }
\* absent, no JSON, JSON of another shape, a written draft
DraftItemSamples ==
  { Null, MalformedText, EmptyObjectText, JsonText(StringifyDraft(SampleDraft)) }

InitStartup ==
  /\ mounted = FALSE
  /\ formState = Null
  /\ layoutMode = "form"
  /\ savedInvoices = << >>
  /\ selectedSavedInvoiceId = EmptyString
  /\ draftPayload = Null
  /\ hasUserSelectedLayout = FALSE
  /\ archiveStorage \in ArchiveItemSamples
  /\ draftStorage \in DraftItemSamples
  /\ quotaExceeded = FALSE
  /\ timers = {}
  /\ effectHandle = 0
  /\ lastOp = Op("init", EmptyString)
  /\ burstLen = 0
  /\ writesSinceMutation = 0
  /\ firedSinceLoad = FALSE
  /\ prompt = NoPrompt
  /\ printTimers = 0
  /\ afterprintListeners = << >>
  /\ printing = FALSE

NextStartup ==
  \/ MountBuilder
  \/ \E inp \in MetaInputs : handleMetaChange(inp[1], inp[2])
  \/ handleRestoreDraft

SpecStartup == InitStartup /\ [][NextStartup]_vars

\* ------------------------------------------------------------------------
\* The validator on sampled working states
\* ------------------------------------------------------------------------
\* text typed into a field: nothing, a blank, a letter
TextSamples == { EmptyString, <<Space>>, <<CharX>> }
PresenceSamples == { EmptyString, <<CharX>> }
\* text of a date field: nothing, text that is no date, today, today + 15
DateSamples == { EmptyString, <<CharX>>, formatDateForInput(Today),
                 formatDateForInput(addDays(Today, 15)) }
\* line items: the default one, and the default one with one field changed
SampleItem == createLineItem(<<1>>, DefaultService)
ItemSamples ==
  { SampleItem,
    [ SampleItem EXCEPT !.description = <<Space>> ],
    [ SampleItem EXCEPT !.quantity = 0 ],
    [ SampleItem EXCEPT !.unitPrice = -1 ],
    [ SampleItem EXCEPT !.discountRate = -1 ] }
SecondItemSamples == { SampleItem, [ SampleItem EXCEPT !.unitPrice = -1 ] }
ItemLists ==
  { << >> } \cup { <<a>> : a \in ItemSamples }
  \cup { <<a, b>> : a \in ItemSamples, b \in SecondItemSamples }
\* the five address fields of the client: at most two of them left empty
AddressSamples ==
  { address \in [ 1..5 -> PresenceSamples ] :
      Cardinality({ i \in 1..5 : address[i] = EmptyString }) <= 2 }

\* the working states the validator is run on
ValidatorInputs ==
  LET base == createInitialState(<<1>>, <<1>>, Today)
  IN  { [ base EXCEPT !.meta.invoiceNumber = number,
                      !.meta.issueDate = issue,
                      !.meta.dueDate = due,
                      !.client.companyName = company,
                      !.client.addressLine1 = address[1],
                      !.client.city = address[2],
                      !.client.state = address[3],
                      !.client.postalCode = address[4],
                      !.client.country = address[5],
                      !.lineItems = items ] :
          number \in PresenceSamples, issue \in DateSamples, due \in DateSamples,
          company \in TextSamples,
          address \in AddressSamples,
          items \in ItemLists }

\* the builder is open and its working state is one of the sampled states
InitValidator ==
  /\ mounted = TRUE
  /\ formState \in ValidatorInputs
  /\ layoutMode = "form"
  /\ savedInvoices = << >>
  /\ selectedSavedInvoiceId = EmptyString
  /\ draftPayload = Null
  /\ hasUserSelectedLayout = FALSE
  /\ archiveStorage = JsonText(StringifyArchive(<< >>))
  /\ draftStorage = Null
  /\ quotaExceeded = FALSE
  /\ timers = AutosaveSchedule({}, formState)
  /\ effectHandle = NewHandle({})
  /\ lastOp = Op("init", EmptyString)
  /\ burstLen = 1
  /\ writesSinceMutation = 0
  /\ firedSinceLoad = FALSE
  /\ prompt = NoPrompt
  /\ printTimers = 0
  /\ afterprintListeners = << >>
  /\ printing = FALSE

\* the validator is run by print requests
NextValidator == \E proceed \in BOOLEAN : handlePrintInvoice(proceed)

SpecValidator == InitValidator /\ [][NextValidator]_vars

\* ------------------------------------------------------------------------
\* Properties of the archive (SpecArchive)
\* ------------------------------------------------------------------------
Entries(list) == { list[i] : i \in DOMAIN list }
EntriesWithId(list, id) == { i \in DOMAIN list : list[i].id = id }

\* C1: whenever save takes effect, the archive afterwards is the new entry
\* followed by the previous archive in its previous order; the new entry is
\* at index 0, carries an id generateId produced, the working state's invoice
\* number and a copy of the working state, and it is the selected entry.
C1_SavePrepends ==
  [][ lastOp'.op = "save" =>
        /\ Len(savedInvoices') = Len(savedInvoices) + 1
        /\ SubSeq(savedInvoices', 2, Len(savedInvoices')) = savedInvoices
        /\ savedInvoices'[1].id \in Ids
        /\ savedInvoices'[1].invoiceNumber = formState.meta.invoiceNumber
        /\ savedInvoices'[1].formState = formState
        /\ selectedSavedInvoiceId' = savedInvoices'[1].id
        /\ formState' = formState ]_vars

\* a save was confirmed although the validator reported an issue, and the new
\* entry stands before an older, different one
C1_Witness ==
  /\ lastOp.op = "save"
  /\ Len(savedInvoices) = 2
  /\ savedInvoices[1].formState = formState
  /\ savedInvoices[1].formState # savedInvoices[2].formState
  /\ validateInvoice(formState) # << >>
  /\ selectedSavedInvoiceId = savedInvoices[1].id

\* C2: update replaces only the invoice number, the save timestamp and the
\* embedded state of the one entry that has the selected id; the archive
\* keeps its length, its order and its ids, every other entry is unchanged,
\* and when no entry has the selected id the archive is unchanged.
C2_UpdateReplacesOneEntry ==
  [][ /\ lastOp'.op = "update" =>
           /\ Len(savedInvoices') = Len(savedInvoices)
           /\ \A i \in DOMAIN savedInvoices : savedInvoices'[i].id = savedInvoices[i].id
           /\ \/ /\ EntriesWithId(savedInvoices, selectedSavedInvoiceId) = {}
                 /\ savedInvoices' = savedInvoices
              \/ \E k \in EntriesWithId(savedInvoices, selectedSavedInvoiceId) :
                   /\ savedInvoices'[k].invoiceNumber = formState.meta.invoiceNumber
                   /\ savedInvoices'[k].formState = formState
                   /\ \A i \in DOMAIN savedInvoices \ {k} :
                        savedInvoices'[i] = savedInvoices[i]
      /\ lastOp'.op = "noop" => savedInvoices' = savedInvoices ]_vars

\* the list without its k-th element
RemoveAt(list, k) == SubSeq(list, 1, k - 1) \o SubSeq(list, k + 1, Len(list))

\* C3: a confirmed delete(id) of an id present in the archive removes exactly
\* one entry, the one with that id, keeps the other entries in their order,
\* and clears the selection if and only if the deleted id was selected.
C3_DeleteRemovesExactlyOne ==
  [][ (lastOp'.op = "delete" /\ EntriesWithId(savedInvoices, lastOp'.arg) # {}) =>
        /\ \E k \in DOMAIN savedInvoices :
             /\ savedInvoices[k].id = lastOp'.arg
             /\ savedInvoices' = RemoveAt(savedInvoices, k)
        /\ selectedSavedInvoiceId' =
             IF selectedSavedInvoiceId = lastOp'.arg THEN EmptyString
             ELSE selectedSavedInvoiceId ]_vars

\* the working-state edits of the archive specification
EditOps == { "metaChange", "regenerate", "new", "select", "restore" }

\* C4: an archive entry is independent of the working state: no working-state
\* edit (load included) changes the archive, and in any step other than an
\* update every entry of the archive is an entry that was there before or the
\* entry a save or duplicate has just put in front.
C4_ArchiveIndependentOfEdits ==
  [][ /\ lastOp'.op \in EditOps =>
           /\ savedInvoices' = savedInvoices
           /\ archiveStorage' = archiveStorage
      /\ (mounted /\ lastOp'.op # "update") =>
           \A i \in DOMAIN savedInvoices' :
             \/ savedInvoices'[i] \in Entries(savedInvoices)
             \/ i = 1 /\ lastOp'.op \in { "save", "duplicate" } ]_vars

\* an entry was loaded, the working state was edited afterwards, and the
\* loaded entry still holds the state it had
C4_Witness ==
  /\ lastOp.op = "metaChange"
  /\ hasUserSelectedLayout
  /\ \E i \in DOMAIN savedInvoices :
       /\ savedInvoices[i].id = selectedSavedInvoiceId
       /\ savedInvoices[i].formState # formState
       /\ savedInvoices[i].formState.meta.invoiceNumber # EmptyString

\* ------------------------------------------------------------------------
\* Properties of the draft (SpecDraft, SpecClear)
\* ------------------------------------------------------------------------
\* C5: a burst of working-state mutations, each made before the timer of the
\* previous one has fired, produces exactly one draft write holding the state
\* after the last mutation: once mutations have been made, either that one
\* write has been made and nothing is pending, or no write has been made and
\* exactly one timer, holding the state after the last mutation, is pending.
C5_BurstProducesExactlyOneWrite ==
  burstLen > 0 =>
    \/ writesSinceMutation = 1 /\ timers = {}
    \/ /\ writesSinceMutation = 0
       /\ Cardinality(timers) = 1
       /\ \A t \in timers : t.formState = formState

\* C6: at most one autosave timer is pending in every reachable state: the
\* service is idle or scheduled, and the pending timer is the one the latest
\* mutation scheduled (the previous one was cancelled before).
C6_SingleTimer ==
  /\ Cardinality(timers) <= 1
  /\ \A t \in timers : mounted /\ t.handle = effectHandle /\ t.formState = formState

\* a timer is pending after a second mutation in a row
C6_Witness ==
  /\ Cardinality(timers) = 1
  /\ burstLen >= 2
  /\ writesSinceMutation = 0
  /\ lastOp.op \in { "metaChange", "regenerate" }

\* C7: after a working-state mutation that no further mutation follows, the
\* persisted draft eventually holds that state: as long as the mutated state
\* has not been written, a timer that will write it is pending.
C7_PendingSaveNeverLost ==
  Unsaved => \E t \in timers : t.formState = formState

\* C8 as stated: after initial load no draft exists, in storage or in
\* memory, until the first autosave timer has fired.
C8_NoDraftUntilFirstFire ==
  (mounted /\ ~firedSinceLoad) => (draftStorage = Null /\ draftPayload = Null)

\* C8: after initial load no draft is written until the first autosave timer
\* has fired: construction leaves storage alone and takes its draft as the
\* in-memory draft, and until the first fire each of the two is what it was
\* or none.
C8_NoDraftWrittenBeforeFirstFire ==
  [][ /\ lastOp'.op = "mount" =>
           /\ draftStorage' = draftStorage
           /\ draftPayload' = safeJsonParseDraft(draftStorage)
      /\ (mounted /\ mounted' /\ ~firedSinceLoad') =>
           /\ draftStorage' \in { draftStorage, Null }
           /\ draftPayload' \in { draftPayload, Null } ]_vars

\* the builder was opened with a draft in storage, the working state was
\* edited, and no timer has fired yet: the earlier draft is still the draft
C8_Witness ==
  /\ mounted
  /\ ~firedSinceLoad
  /\ burstLen >= 1
  /\ draftStorage # Null
  /\ draftPayload = safeJsonParseDraft(draftStorage)
  /\ draftPayload.formState # formState

\* C9: restore, when a draft exists, replaces the working state with a copy
\* of the draft's state and leaves the persisted draft and the in-memory
\* reference as they were; without a draft it changes nothing.
C9_RestoreKeepsDraft ==
  [][ /\ lastOp'.op = "restore" =>
           /\ draftPayload # Null
           /\ formState' = draftPayload.formState
           /\ draftPayload' = draftPayload
           /\ draftStorage' = draftStorage
      /\ lastOp'.op = "noop" =>
           UNCHANGED <<mounted, componentVars, storageVars, timerVars>> ]_vars

\* a draft has been restored and is still there, in memory and in storage
C9_Witness ==
  /\ lastOp.op = "restore"
  /\ draftPayload # Null
  /\ formState = draftPayload.formState
  /\ draftStorage # Null
  /\ safeJsonParseDraft(draftStorage) = draftPayload
  /\ timers # {}

\* C10: clear removes the persisted draft and drops the in-memory reference;
\* the working state, the archive and the selection are unchanged.
C10_ClearRemovesDraft ==
  [][ lastOp'.op = "clear" =>
        /\ draftStorage' = Null
        /\ draftPayload' = Null
        /\ formState' = formState
        /\ savedInvoices' = savedInvoices
        /\ archiveStorage' = archiveStorage
        /\ selectedSavedInvoiceId' = selectedSavedInvoiceId ]_vars

\* a draft had been written and was cleared, with an entry in the archive
\* selected
C10_Witness ==
  /\ lastOp.op = "clear"
  /\ firedSinceLoad
  /\ draftStorage = Null
  /\ draftPayload = Null
  /\ savedInvoices # << >>
  /\ selectedSavedInvoiceId # EmptyString

\* ------------------------------------------------------------------------
\* Properties of load (SpecLoad)
\* ------------------------------------------------------------------------
\* C11: load(id) for an id that no archive entry has leaves the working
\* state, the selection, the layout mode and the archive unchanged.
C11_LoadAbsentIdChangesNothing ==
  [][ (lastOp'.op = "load" /\ EntriesWithId(savedInvoices, lastOp'.arg) = {}) =>
        /\ formState' = formState
        /\ selectedSavedInvoiceId' = selectedSavedInvoiceId
        /\ layoutMode' = layoutMode
        /\ savedInvoices' = savedInvoices
        /\ archiveStorage' = archiveStorage
        /\ timers' = timers ]_vars

\* load was called with an id no entry has, while another entry is selected
C11_Witness ==
  /\ lastOp.op = "load"
  /\ EntriesWithId(savedInvoices, lastOp.arg) = {}
  /\ savedInvoices # << >>
  /\ selectedSavedInvoiceId # EmptyString
  /\ selectedSavedInvoiceId # lastOp.arg
  /\ layoutMode # "preview"

\* C12: load(id) for an id present in the archive sets the working state to
\* a copy of the embedded state of the entry with that id (the first one
\* found), makes id the selected entry, switches the layout mode to preview,
\* and leaves the archive unchanged; the archive <select> loads the same way.
C12_LoadPresentId ==
  [][ /\ (lastOp'.op = "load" /\ EntriesWithId(savedInvoices, lastOp'.arg) # {}) =>
           /\ formState' = savedInvoices[FindIndex(savedInvoices, lastOp'.arg)].formState
           /\ selectedSavedInvoiceId' = lastOp'.arg
           /\ layoutMode' = "preview"
           /\ savedInvoices' = savedInvoices
           /\ archiveStorage' = archiveStorage
      /\ (lastOp'.op = "select" /\ selectedSavedInvoiceId' # EmptyString) =>
           /\ formState' = savedInvoices[FindIndex(savedInvoices, selectedSavedInvoiceId')].formState
           /\ layoutMode' = "preview"
           /\ savedInvoices' = savedInvoices
           /\ archiveStorage' = archiveStorage ]_vars

\* an entry was loaded by id while the archive holds another entry with
\* another state
C12_Witness ==
  /\ lastOp.op = "load"
  /\ Len(savedInvoices) = 2
  /\ layoutMode = "preview"
  /\ selectedSavedInvoiceId = lastOp.arg
  /\ \E i, k \in DOMAIN savedInvoices :
       /\ savedInvoices[i].id = lastOp.arg
       /\ savedInvoices[i].formState = formState
       /\ savedInvoices[k].id # lastOp.arg
       /\ savedInvoices[k].formState # formState

\* ------------------------------------------------------------------------
\* Duplicate and save (SpecArchive)
\* ------------------------------------------------------------------------
\* one step of save or duplicate that has put a new entry, with an id of
\* generateId, the current invoice number and a copy of the working state,
\* in front of the archive and has selected it
NewEntryPrependedAndSelected ==
  /\ Len(savedInvoices') = Len(savedInvoices) + 1
  /\ SubSeq(savedInvoices', 2, Len(savedInvoices')) = savedInvoices
  /\ savedInvoices'[1].id \in Ids
  /\ savedInvoices'[1].invoiceNumber = formState.meta.invoiceNumber
  /\ savedInvoices'[1].formState = formState
  /\ selectedSavedInvoiceId' = savedInvoices'[1].id

\* C13: duplicate is identical to save: started from the same state, each of
\* the two produces the same archive (a new entry with a fresh id, a copy of
\* the working state and the current invoice number, prepended) and the same
\* selection, whether or not an entry is selected.
C13_DuplicateIdenticalToSave ==
  [][ lastOp'.op \in { "duplicate", "save", "saveDeclined" } =>
        NewEntryPrependedAndSelected ]_vars

\* ------------------------------------------------------------------------
\* Validation is advisory (SpecConfirm)
\* ------------------------------------------------------------------------
\* the handlers that validate: the label of a run that took effect and the
\* label of a run that was declined
ValidatingOps == { "save", "update", "printRequest" }
DeclinedOps == { "saveDeclined", "updateDeclined", "printDeclined" }

\* C14: validation never blocks save, update or print: the prompt is shown
\* exactly when the validator reports issues and lists them; a run ends
\* without effect only when the user has declined that prompt, and a run
\* without prompt or with a confirmed prompt takes effect.
C14_ValidationIsAdvisory ==
  [][ /\ lastOp'.op \in ValidatingOps \cup DeclinedOps =>
           /\ (prompt' # NoPrompt) <=> (validateInvoice(formState) # << >>)
           /\ prompt' # NoPrompt => prompt'.lines = validateInvoice(formState)
      /\ lastOp'.op \in DeclinedOps =>
           /\ prompt' # NoPrompt
           /\ ~prompt'.answer
      /\ lastOp'.op \in ValidatingOps => (prompt' = NoPrompt \/ prompt'.answer)
      /\ lastOp'.op = "save" => Len(savedInvoices') = Len(savedInvoices) + 1
      /\ lastOp'.op = "update" =>
           \E i \in DOMAIN savedInvoices' :
             /\ savedInvoices'[i].id = selectedSavedInvoiceId
             /\ savedInvoices'[i].formState = formState
      /\ lastOp'.op = "printRequest" =>
           /\ layoutMode' = "preview"
           /\ printTimers' = printTimers + 1 ]_vars

\* a print was confirmed over the listed issues and is on its way, after a
\* copy with the same issues had been saved
C14_Witness ==
  /\ lastOp.op = "printRequest"
  /\ prompt # NoPrompt
  /\ prompt.answer
  /\ prompt.lines = <<IssueInvoiceNumber>>
  /\ layoutMode = "preview"
  /\ printTimers > 0
  /\ savedInvoices # << >>
  /\ validateInvoice(savedInvoices[1].formState) # << >>

\* ------------------------------------------------------------------------
\* Properties of the validator (SpecValidator)
\* ------------------------------------------------------------------------
Blank(text) == \A i \in DOMAIN text : text[i] = Space
ValidDate(text) == DateTime(text) # -1
ItemInvalid(item) ==
  Blank(item.description) \/ item.quantity <= 0 \/ item.unitPrice < 0 \/ item.discountRate < 0

\* the rules of the validator, in their order: the issue text of each rule
\* and whether the state violates it
RuleTexts ==
  << IssueInvoiceNumber, IssueIssueDate, IssueDueDate, IssueDateOrder, IssueCompany,
     IssueAddress, IssueCity, IssueState, IssuePostal, IssueCountry, IssueNoItems,
     IssueItems >>
Violated(state) ==
  << Blank(state.meta.invoiceNumber),
     Blank(state.meta.issueDate),
     Blank(state.meta.dueDate),
     /\ ValidDate(state.meta.issueDate)
     /\ ValidDate(state.meta.dueDate)
     /\ DateTime(state.meta.dueDate) < DateTime(state.meta.issueDate),
     Blank(state.client.companyName),
     Blank(state.client.addressLine1),
     Blank(state.client.city),
     Blank(state.client.state),
     Blank(state.client.postalCode),
     Blank(state.client.country),
     state.lineItems = << >>,
     \E i \in DOMAIN state.lineItems : ItemInvalid(state.lineItems[i]) >>

\* the issue list the validator has returned to the handler that ran last
IssuesShown(p) == IF p = NoPrompt THEN << >> ELSE p.lines
ValidatorRan(op) == op.op \in { "printRequest", "printDeclined" }

\* the only defects are an empty due date and an empty company name
OnlyDueDateAndCompanyMissing(state) ==
  /\ state.meta.dueDate = EmptyString
  /\ state.client.companyName = EmptyString
  /\ \A k \in DOMAIN RuleTexts \ {3, 5} : ~Violated(state)[k]

\* C15: for an invoice whose only defects are an empty due date and an empty
\* company name the validator returns exactly two issues, the due-date issue
\* first and the company-name issue second, and a further run over the same
\* state returns the same list.
C15_DueDateThenCompany ==
  [][ (ValidatorRan(lastOp') /\ OnlyDueDateAndCompanyMissing(formState)) =>
        /\ IssuesShown(prompt') = <<IssueDueDate, IssueCompany>>
        /\ ValidatorRan(lastOp) => IssuesShown(prompt') = IssuesShown(prompt) ]_vars

\* the validator has run twice over such an invoice
C15_Witness ==
  /\ lastOp.op = "printDeclined"
  /\ printTimers = 1
  /\ OnlyDueDateAndCompanyMissing(formState)
  /\ formState.meta.issueDate # EmptyString
  /\ Len(formState.lineItems) = 2
  /\ IssuesShown(prompt) = <<IssueDueDate, IssueCompany>>

\* the place of an issue text in the order of the rules
RuleOf(text) == CHOOSE k \in DOMAIN RuleTexts : RuleTexts[k] = text

\* C16: the rules are evaluated independently and in a fixed order: the
\* issue of a rule is in the output exactly when the state violates that
\* rule, each issue at most once and in the order of the rules; the line-item
\* rule gives one issue however many items are invalid, and the date-order
\* issue is given exactly when both dates are valid dates and the due date
\* is before the issue date.
C16_RulesIndependentInOrder ==
  [][ ValidatorRan(lastOp') =>
        LET out == IssuesShown(prompt')
        IN  /\ \A k \in DOMAIN RuleTexts :
                 (\E i \in DOMAIN out : out[i] = RuleTexts[k]) <=> Violated(formState)[k]
            /\ \A i \in DOMAIN out : \E k \in DOMAIN RuleTexts : out[i] = RuleTexts[k]
            /\ \A i, j \in DOMAIN out : i < j => RuleOf(out[i]) < RuleOf(out[j]) ]_vars

\* the validator has run over an invoice with two invalid items and a due
\* date before the issue date, and has returned each of the two issues once
C16_Witness ==
  /\ ValidatorRan(lastOp)
  /\ Len(formState.lineItems) = 2
  /\ \A i \in DOMAIN formState.lineItems : ItemInvalid(formState.lineItems[i])
  /\ formState.lineItems[1] # formState.lineItems[2]
  /\ DateTime(formState.meta.dueDate) < DateTime(formState.meta.issueDate)
  /\ IssuesShown(prompt) = <<IssueDateOrder, IssueCompany, IssueItems>>

\* ------------------------------------------------------------------------
\* Properties of the totals (SpecTotals)
\* ------------------------------------------------------------------------
NonNegativeItems(items) ==
  \A i \in DOMAIN items :
    /\ items[i].quantity >= 0
    /\ items[i].unitPrice >= 0
    /\ items[i].discountRate >= 0

\* C17: whenever every line item has a non-negative quantity, unit price and
\* discount rate, the taxable amount of the totals is at least 0, whatever
\* the tax rate and also when the discounts exceed the subtotal
C17_TaxableAmountNonNegative ==
  (mounted /\ NonNegativeItems(formState.lineItems))
    => totals(formState).taxableAmount >= 0

\* the discounts exceed a positive subtotal (a discount rate above 100)
C17_Witness ==
  /\ mounted
  /\ NonNegativeItems(formState.lineItems)
  /\ Subtotal(formState.lineItems) > 0
  /\ DiscountTotal(formState.lineItems) > Subtotal(formState.lineItems)
  /\ \E i \in DOMAIN formState.lineItems : formState.lineItems[i].discountRate > 100
  /\ totals(formState).taxableAmount = 0

\* the sum of f over the items, by index
LineSum(items, f(_)) ==
  LET upTo[n \in 0..Len(items)] ==
        IF n = 0 THEN 0 ELSE upTo[n - 1] + f(items[n])
  IN  upTo[Len(items)]

LineAmount(item) == item.quantity * item.unitPrice
LineDiscountTimes100(item) == item.quantity * item.unitPrice * item.discountRate

ExampleItems(items) ==
  /\ Len(items) = 2
  /\ items[1].quantity = 2 /\ items[1].unitPrice = 1000 /\ items[1].discountRate = 10
  /\ items[2].quantity = 1 /\ items[2].unitPrice = 500 /\ items[2].discountRate = 0

\* C18: the totals equal the reference definition: subtotal = sum of
\* quantity*unitPrice, discountTotal = sum of quantity*unitPrice*discountRate
\* /100, taxAmount = taxableAmount*taxRate/100, total = taxableAmount +
\* taxAmount; the items (2, 1000, 10) and (1, 500, 0) at tax rate 18 give
\* 2500, 200, 2300, 414 and 2714
C18_TotalsMatchReference ==
  mounted =>
    LET t == totals(formState)
    IN  /\ t.subtotal = Amount(LineSum(formState.lineItems, LineAmount))
        /\ t.discountTotal = Hundredth(LineSum(formState.lineItems, LineDiscountTimes100))
        /\ 100 * t.taxAmount = t.taxableAmount * formState.taxRate
        /\ t.total = t.taxableAmount + t.taxAmount
        /\ (ExampleItems(formState.lineItems) /\ formState.taxRate = 18) =>
             t = [ subtotal |-> Amount(2500), discountTotal |-> Amount(200),
                   taxableAmount |-> Amount(2300), taxAmount |-> Amount(414),
                   total |-> Amount(2714) ]

\* the example of the claim
C18_Witness ==
  /\ mounted
  /\ ExampleItems(formState.lineItems)
  /\ formState.taxRate = 18
  /\ totals(formState).total = Amount(2714)

\* ------------------------------------------------------------------------
\* Regenerating the invoice number (SpecArchive)
\* ------------------------------------------------------------------------
\* C19: every regeneration of the invoice number changes only the invoice
\* number of the working state: the other meta fields, the client, the line
\* items, the currency, the tax rate, the terms, the note, the archive and
\* the selection are as before
C19_RegenerateChangesOnlyInvoiceNumber ==
  [][lastOp'.op = "regenerate" =>
       /\ formState' = [ formState EXCEPT
                           !.meta.invoiceNumber = formState'.meta.invoiceNumber ]
       /\ savedInvoices' = savedInvoices
       /\ selectedSavedInvoiceId' = selectedSavedInvoiceId]_vars

\* a regeneration with an archive entry selected, giving a number that
\* differs from the one of the selected entry
C19_Witness ==
  /\ mounted
  /\ lastOp.op = "regenerate"
  /\ selectedSavedInvoiceId # EmptyString
  /\ \E i \in DOMAIN savedInvoices :
       /\ savedInvoices[i].id = selectedSavedInvoiceId
       /\ savedInvoices[i].formState.meta.invoiceNumber # formState.meta.invoiceNumber
       /\ [ savedInvoices[i].formState EXCEPT
              !.meta.invoiceNumber = formState.meta.invoiceNumber ] = formState

\* ------------------------------------------------------------------------
\* Entry of numbers (SpecEntry)
\* ------------------------------------------------------------------------
\* C20: after any sequence of tax-rate and unit-price input events, negative
\* numbers included, the tax rate of the working state is at least 0 and the
\* unit price of every line item is at least 0
C20_ClampedAtEntry ==
  mounted =>
    /\ formState.taxRate >= 0
    /\ \A i \in DOMAIN formState.lineItems : formState.lineItems[i].unitPrice >= 0

NumericFields == { "taxRate", "quantity", "unitPrice", "discountRate" }

\* C21: an entry that is no numeral into the tax rate, a quantity, a unit
\* price or a discount rate leaves that field at its previous value (so the
\* working state is as before)
C21_NonNumericEntryKeepsValue ==
  [][(lastOp'.op \in NumericFields /\ lastOp'.text.kind = "other")
       => formState' = formState]_vars

\* ------------------------------------------------------------------------
\* Printing (SpecPrint)
\* ------------------------------------------------------------------------
\* the operations by which the user sets the layout
UserLayoutOps == { "layout", "restore" }

C23_RestoredToValuesAtRequest ==
  [][lastOp'.op = "afterprint" =>
       \A i \in DOMAIN afterprintListeners :
         /\ layoutMode' = afterprintListeners[i].layoutMode
         /\ hasUserSelectedLayout' = afterprintListeners[i].userSelection]_vars

\* ------------------------------------------------------------------------
\* Ids of the archive (SpecArchive)
\* ------------------------------------------------------------------------
\* C24: in every reachable state no two archive entries have the same id
C24_ArchiveIdsUnique ==
  \A i, j \in DOMAIN savedInvoices :
    savedInvoices[i].id = savedInvoices[j].id => i = j

\* ------------------------------------------------------------------------
\* Construction from localStorage (SpecStartup)
\* ------------------------------------------------------------------------
\* the item is absent, or no JSON, or JSON of another shape
AbsentOrMalformed(item) == item \in { Null, MalformedText, EmptyObjectText }

\* C25: when the draft item read at construction is absent or malformed,
\* the in-memory draft reference is none after construction, and a later
\* restore changes nothing and does not fail
C25_MalformedDraftIsNoDraft ==
  [][/\ (lastOp'.op = "mount" /\ AbsentOrMalformed(lastOp'.draft))
          => draftPayload' = Null
     /\ (lastOp'.op \in {"noop", "restore", "restoreThrew"}
           /\ AbsentOrMalformed(draftStorage))
          => (lastOp'.op = "noop" /\ formState' = formState)]_vars

\* C26: when the archive item read at construction is absent or malformed,
\* the component is constructed with an empty in-memory archive
C26_MalformedArchiveIsEmpty ==
  [][(lastOp'.op = "mount" /\ AbsentOrMalformed(lastOp'.archive))
       => (mounted' /\ savedInvoices' = << >>)]_vars

\* constructed on an archive item that is JSON but no array
C26_Witness ==
  /\ mounted
  /\ lastOp.op = "mount"
  /\ lastOp.archive = EmptyObjectText
  /\ savedInvoices = << >>

\* ------------------------------------------------------------------------
\* Failing writes (SpecStorage)
\* ------------------------------------------------------------------------
\* C27: a storage write that fails is not fatal: the component stays, and
\* the in-memory archive, the selection and the working state are not lost
C27_FailingWriteNotFatal ==
  [][lastOp'.op \in {"crash", "autosaveThrew"} =>
       /\ mounted' = mounted
       /\ formState' = formState
       /\ selectedSavedInvoiceId' = selectedSavedInvoiceId
       /\ Len(savedInvoices') >= Len(savedInvoices) - 1]_vars

\* ------------------------------------------------------------------------
\* The persisted archive (SpecArchive)
\* ------------------------------------------------------------------------
\* C28: while the component exists, the persisted archive is the whole
\* in-memory archive, entry for entry and in the same order
C28_PersistedArchiveIsWholeList ==
  mounted =>
    /\ archiveStorage = JsonText(StringifyArchive(savedInvoices))
    /\ InitialSavedInvoices(archiveStorage) = savedInvoices

\* an update has rewritten one of two different entries
C28_Witness ==
  /\ mounted
  /\ lastOp.op = "update"
  /\ Len(savedInvoices) = 2
  /\ savedInvoices[1].id # savedInvoices[2].id
  /\ savedInvoices[1].formState # savedInvoices[2].formState
  /\ archiveStorage = JsonText(StringifyArchive(savedInvoices))

\* ------------------------------------------------------------------------
\* Export, new invoice and the selection (SpecSelection)
\* ------------------------------------------------------------------------
\* C29: export(id) changes neither the archive, the selection, the working
\* state nor the draft; without an entry of that id it produces no download,
\* and otherwise the download holds a whole entry of that id and is named
\* from the entry's invoice number ('invoice' when it is empty) and its id
C29_ExportReadsOnly ==
  [][lastOp'.op = "export" =>
       /\ UNCHANGED <<savedInvoices, selectedSavedInvoiceId, formState, draftPayload,
                      archiveStorage, draftStorage>>
       /\ IF \A i \in DOMAIN savedInvoices : savedInvoices[i].id # lastOp'.arg
            THEN lastOp'.artifact = Null
            ELSE \E i \in DOMAIN savedInvoices :
                   LET entry == savedInvoices[i]
                   IN  /\ entry.id = lastOp'.arg
                       /\ lastOp'.artifact # Null
                       /\ ParseArchive(<< lastOp'.artifact.payload >>) = << entry >>
                       /\ lastOp'.artifact.download =
                            (IF entry.invoiceNumber = EmptyString
                               THEN <<CharInvoice>> ELSE entry.invoiceNumber)
                              \o <<CharDash>> \o entry.id \o <<CharJson>>]_vars

\* an entry with an empty invoice number has been exported while the working
\* state differs from the entry's state
C29_Witness ==
  /\ mounted
  /\ lastOp.op = "export"
  /\ lastOp.artifact # Null
  /\ \E i \in DOMAIN savedInvoices :
       /\ savedInvoices[i].id = lastOp.arg
       /\ savedInvoices[i].invoiceNumber = EmptyString
       /\ savedInvoices[i].formState # formState
       /\ lastOp.artifact.download = <<CharInvoice, CharDash>> \o lastOp.arg \o <<CharJson>>

\* C30: new invoice makes the working state a fresh initial state, empties
\* the selection and leaves the archive as it is; a delete of the selected
\* entry empties the selection
C30_NewAndDeleteResetSelection ==
  [][/\ lastOp'.op = "new" =>
          /\ \E itemId \in Ids, token \in Ids, now \in Times :
               formState' = createInitialState(itemId, token, DayOf(now))
          /\ selectedSavedInvoiceId' = EmptyString
          /\ savedInvoices' = savedInvoices
          /\ archiveStorage' = archiveStorage
     /\ (lastOp'.op = "delete" /\ lastOp'.arg = selectedSavedInvoiceId) =>
          selectedSavedInvoiceId' = EmptyString]_vars

\* a new invoice has been started while an entry was selected: the archive
\* still holds the entry and nothing is selected
C30_Witness ==
  /\ mounted
  /\ lastOp.op = "new"
  /\ savedInvoices # << >>
  /\ selectedSavedInvoiceId = EmptyString
  /\ \E i \in DOMAIN savedInvoices : savedInvoices[i].formState # formState

\* ------------------------------------------------------------------------
\* Services of line items (SpecService)
\* ------------------------------------------------------------------------
InCatalog(serviceId) == \E i \in DOMAIN ServiceCatalog : ServiceCatalog[i].id = serviceId

\* C31: a change of the service of the row `id` to an id outside the catalog
\* is carried out, keeps the description and the unit price of the line
\* items of that row, and leaves every other line item unchanged
C31_UnknownServiceKeepsItem ==
  [][(lastOp'.op = "service" /\ ~InCatalog(lastOp'.serviceId)) =>
       /\ mounted'
       /\ Len(formState'.lineItems) = Len(formState.lineItems)
       /\ \A i \in DOMAIN formState.lineItems :
            LET before == formState.lineItems[i]
                after == formState'.lineItems[i]
            IN  IF before.id = lastOp'.arg
                  THEN after = [ before EXCEPT !.serviceId = lastOp'.serviceId ]
                  ELSE after = before]_vars

\* the service of one of two rows has been set to an id outside the catalog;
\* the row keeps a description and a price
C31_Witness ==
  /\ mounted
  /\ lastOp.op = "service"
  /\ lastOp.serviceId = UnknownServiceId
  /\ Len(formState.lineItems) = 2
  /\ \E i, j \in DOMAIN formState.lineItems :
       /\ formState.lineItems[i].id = lastOp.arg
       /\ formState.lineItems[i].serviceId = UnknownServiceId
       /\ formState.lineItems[i].description # EmptyString
       /\ formState.lineItems[i].unitPrice > 0
       /\ formState.lineItems[j].id # lastOp.arg

\* ------------------------------------------------------------------------
\* Line items of the working state (SpecItems)
\* ------------------------------------------------------------------------
\* C32: the working state always holds at least one line item
C32_AtLeastOneLineItem ==
  mounted => Len(formState.lineItems) >= 1

\* ------------------------------------------------------------------------
\* Declined prompts (SpecDecline)
\* ------------------------------------------------------------------------
AllDeclinedOps == { "saveDeclined", "updateDeclined", "printDeclined", "deleteDeclined" }

\* C33: a declined prompt (save, update or print with issues, delete) leaves
\* the archive, the selection, the working state, the layout mode and the
\* user-selected-layout flag unchanged, and requests no print
C33_DeclineChangesNothing ==
  [][lastOp'.op \in AllDeclinedOps =>
       /\ prompt' # NoPrompt /\ ~prompt'.answer
       /\ savedInvoices' = savedInvoices
       /\ archiveStorage' = archiveStorage
       /\ selectedSavedInvoiceId' = selectedSavedInvoiceId
       /\ formState' = formState
       /\ layoutMode' = layoutMode
       /\ hasUserSelectedLayout' = hasUserSelectedLayout
       /\ printTimers' = printTimers
       /\ printing' = printing
       /\ afterprintListeners' = afterprintListeners]_vars

\* the delete of the selected entry has been declined; the entry is there
C33_WitnessDelete ==
  /\ mounted
  /\ lastOp.op = "deleteDeclined"
  /\ selectedSavedInvoiceId # EmptyString
  /\ \E i \in DOMAIN savedInvoices : savedInvoices[i].id = selectedSavedInvoiceId

\* a save with issues has been declined while the archive holds an entry
C33_Witness ==
  /\ mounted
  /\ lastOp.op \in { "saveDeclined", "updateDeclined", "printDeclined" }
  /\ validateInvoice(formState) # << >>
  /\ savedInvoices # << >>
  /\ selectedSavedInvoiceId # EmptyString

\* ------------------------------------------------------------------------
\* Completion handlers of print requests (SpecPrint)
\* ------------------------------------------------------------------------
\* C34: a print request registers exactly one completion handler, holding
\* the layout and the flag of the moment of the request; a completion event
\* runs the registered handlers and deregisters each of them, so that a
\* completion event that finds none registered restores nothing; no other
\* step registers or deregisters a handler
C34_CompletionHandlerRunsOnce ==
  [][ /\ lastOp'.op = "printRequest" =>
           afterprintListeners' =
             Append(afterprintListeners, RestoreClosure(layoutMode, hasUserSelectedLayout))
      /\ lastOp'.op = "afterprint" =>
           /\ afterprintListeners' = << >>
           /\ afterprintListeners = << >> =>
                /\ layoutMode' = layoutMode
                /\ hasUserSelectedLayout' = hasUserSelectedLayout
           /\ afterprintListeners # << >> =>
                /\ layoutMode' = afterprintListeners[Len(afterprintListeners)].layoutMode
                /\ hasUserSelectedLayout' =
                     afterprintListeners[Len(afterprintListeners)].userSelection
      /\ lastOp'.op \notin { "printRequest", "afterprint" } =>
           afterprintListeners' = afterprintListeners ]_vars

\* the completion event of a first print has run and deregistered the
\* handlers of two requests while the second print is still to come
C34_Witness ==
  /\ mounted
  /\ lastOp.op = "afterprint"
  /\ printTimers = 1
  /\ ~printing
  /\ afterprintListeners = << >>

\* ------------------------------------------------------------------------
\* The selection and the archive (SpecControls)
\* ------------------------------------------------------------------------
\* C35: the selection is empty or the id of an entry of the archive
C35_SelectionInArchive ==
  mounted =>
    \/ selectedSavedInvoiceId = EmptyString
    \/ \E i \in DOMAIN savedInvoices : savedInvoices[i].id = selectedSavedInvoiceId

\* the selected entry has been deleted while another entry stays
C35_Witness ==
  /\ mounted
  /\ lastOp.op = "delete"
  /\ savedInvoices # << >>
  /\ selectedSavedInvoiceId = EmptyString
  /\ \A i \in DOMAIN savedInvoices : savedInvoices[i].id # lastOp.arg

\* ------------------------------------------------------------------------
\* The idle draft service (SpecIdle)
\* ------------------------------------------------------------------------
\* no timer is pending and the component holds a draft
IdleWithDraft == mounted /\ timers = {} /\ draftPayload # Null

\* history: a timer callback has written the draft after the last mutation
\* of the working state, or after the construction if none has followed
DraftWrittenSinceLastChange ==
  \/ writesSinceMutation > 0
  \/ burstLen = 0 /\ firedSinceLoad

SchedulingOps == { "metaChange", "regenerate", "new", "restore" }

\* C37: clear removes the draft and leaves the pending timers as they are; a
\* timer fire leaves a draft that holds the working state, in memory and in
\* storage; a draft comes into storage by a timer fire only, and a timer
\* comes to the idle service by a new working state only, so that after a
\* clear in the idle state no draft exists until a mutation has been autosaved
C37_ClearKeepsPendingAutosave ==
  [][ /\ lastOp'.op = "clear" =>
           /\ timers' = timers
           /\ draftPayload' = Null
           /\ draftStorage' = Null
      /\ lastOp'.op = "autosave" =>
           /\ draftPayload' # Null
           /\ draftPayload'.formState = formState'
           /\ draftStorage' = JsonText(StringifyDraft(draftPayload'))
      /\ (draftStorage = Null /\ draftStorage' # Null) =>
           lastOp'.op = "autosave" /\ timers # {}
      /\ (mounted /\ draftPayload = Null /\ draftPayload' # Null) =>
           lastOp'.op = "autosave" /\ timers # {}
      /\ (mounted /\ timers = {} /\ timers' # {}) =>
           lastOp'.op \in SchedulingOps /\ formState' # Null ]_vars

\* clear has run while the autosave of an edit is scheduled, after an
\* earlier fire had written a draft: the timer is still pending
C37_Witness ==
  /\ mounted
  /\ lastOp.op = "clear"
  /\ timers # {}
  /\ firedSinceLoad
  /\ Unsaved
  /\ draftPayload = Null
  /\ draftStorage = Null

\* clear has run in the idle state: no draft and no timer
C37_WitnessIdle ==
  /\ mounted
  /\ lastOp.op = "clear"
  /\ timers = {}
  /\ firedSinceLoad
  /\ draftPayload = Null
  /\ draftStorage = Null

\* ------------------------------------------------------------------------
\* The autosave scheduled at startup (SpecDraft)
\* ------------------------------------------------------------------------
\* a state createInitialState() can return
IsInitialState(state) ==
  \E itemId \in Ids, token \in Ids, now \in Times :
    state = createInitialState(itemId, token, DayOf(now))

\* C38: the construction schedules an autosave of the initial working state
\* and takes the draft of storage into memory; when the timer fires with no
\* step of the user in between, the draft in storage and in memory becomes a
\* copy of the initial working state, whatever storage held; a restore puts
\* the state of the draft in memory into the working state, which is the
\* earlier draft only before that fire
C38_StartupAutosaveReplacesDraft ==
  [][ /\ lastOp'.op = "mount" =>
           /\ mounted'
           /\ IsInitialState(formState')
           /\ \E t \in timers' : t.formState = formState'
           /\ draftStorage' = draftStorage
           /\ draftPayload' = InitialDraftPayload(draftStorage)
      /\ (lastOp.op = "mount" /\ lastOp'.op = "autosave") =>
           /\ formState' = formState
           /\ draftPayload'.formState = formState
           /\ draftStorage' = JsonText(StringifyDraft(draftPayload'))
      /\ lastOp'.op = "restore" =>
           /\ formState' = cloneFormState(draftPayload.formState)
           /\ draftPayload' = draftPayload
           /\ draftStorage' = draftStorage ]_vars

\* the builder has started while storage holds the draft of an edited state
\* of an earlier visit: the draft is offered and the autosave of the fresh
\* state is pending
C38_Witness ==
  /\ mounted
  /\ lastOp.op = "mount"
  /\ lastOp.draft # Null
  /\ draftPayload # Null
  /\ draftPayload.formState.meta.invoiceNumber = EmptyString
  /\ draftPayload.formState # formState
  /\ \E t \in timers : t.formState = formState

\* ------------------------------------------------------------------------
\* The invoice number beside the embedded state (SpecArchive)
\* ------------------------------------------------------------------------
\* C39: the invoice number of every archive entry is the invoice number of
\* the state the entry embeds
C39_DenormalizedNumberMatches ==
  mounted =>
    \A i \in DOMAIN savedInvoices :
      savedInvoices[i].invoiceNumber = savedInvoices[i].formState.meta.invoiceNumber

\* an entry has been updated from a working state whose invoice number was
\* edited after the save; the other entry keeps another number
C39_Witness ==
  /\ mounted
  /\ lastOp.op = "update"
  /\ Len(savedInvoices) = 2
  /\ \E i, j \in DOMAIN savedInvoices :
       /\ savedInvoices[i].id = selectedSavedInvoiceId
       /\ savedInvoices[i].invoiceNumber = EmptyString
       /\ savedInvoices[j].invoiceNumber # EmptyString

\* ------------------------------------------------------------------------
\* The viewport and the layout (SpecLayout)
\* ------------------------------------------------------------------------
\* the steps after which the flag is set; a load sets it when it finds the
\* entry
FlagSettingOps == { "layout", "restore", "printRequest" }

\* C40: a change of the viewport leaves the layout mode alone when the flag
\* is set, and sets it to split (wide) or form (narrow) when the flag is
\* unset; it never changes the flag; the layout buttons, a load of an entry
\* of the archive, a restore and a print request set the flag
C40_ViewportRespectsUserLayout ==
  [][ /\ lastOp'.op = "media" =>
           /\ hasUserSelectedLayout' = hasUserSelectedLayout
           /\ hasUserSelectedLayout => layoutMode' = layoutMode
           /\ ~hasUserSelectedLayout =>
                layoutMode' = (IF lastOp'.matches THEN "split" ELSE "form")
      /\ lastOp'.op \in FlagSettingOps => hasUserSelectedLayout'
      /\ (/\ lastOp'.op = "load"
          /\ \E i \in DOMAIN savedInvoices : savedInvoices[i].id = lastOp'.arg) =>
           hasUserSelectedLayout' ]_vars

\* the viewport has become wide while a loaded entry is shown in the form
\* layout: the layout stays
C40_Witness ==
  /\ mounted
  /\ lastOp.op = "media"
  /\ lastOp.matches
  /\ hasUserSelectedLayout
  /\ selectedSavedInvoiceId # EmptyString
  /\ layoutMode = "form"
  /\ printTimers = 0 /\ ~printing

\* the viewport has become narrow while a print is in progress: the preview
\* stays
C40_WitnessPrint ==
  /\ mounted
  /\ lastOp.op = "media"
  /\ ~lastOp.matches
  /\ printing
  /\ layoutMode = "preview"

\* the viewport has become narrow with the flag unset: the form layout
C40_WitnessUnset ==
  /\ mounted
  /\ lastOp.op = "media"
  /\ ~lastOp.matches
  /\ ~hasUserSelectedLayout
  /\ layoutMode = "form"

====
